---- MODULE Spec2Model ----
(***************************************************************************)
(* Model of the LEAN 4 state-machine parser, src/python/lean4_parser_v4.py *)
(* (class Lexer and class Parser).  Source text is a sequence of           *)
(* one-character strings; Python's 0-based `position` is kept as it is, so *)
(* content[position] of the source is content[position + 1] here.          *)
(***************************************************************************)
EXTENDS Integers, Sequences, FiniteSets, TLC

VARIABLES
    content,          \* Lexer.content
    position,         \* Lexer.position
    line,             \* Lexer.line
    column,           \* Lexer.column
    lexlog,           \* history: one entry per call of Lexer.next_token
    current_token,    \* Parser.current_token
    peek_token,       \* Parser.peek_token
    definitions,      \* local `definitions` of Parser.parse
    defn,             \* local `defn` of Parser.parse_definition
    signature_tokens, \* local `signature_tokens` of parse_definition
    bracket_stack,    \* local `bracket_stack` of parse_definition
    sig_depths,       \* history: kind of each signature token and the bracket depth it met
    attempts,         \* history: per call of parse_definition, the indices in lexlog of
                      \* its first token, its name and the token that ended it, and the
                      \* index in `definitions` of what it emitted (0: nothing)
    raised,           \* TRUE once an operation has raised a Python exception
    pc                \* control position of Parser.parse / the lexer driver

vars == <<content, position, line, column, lexlog, current_token, peek_token,
          definitions, defn, signature_tokens, bracket_stack, sig_depths,
          attempts, raised, pc>>

lexvars == <<position, line, column, lexlog>>
parservars == <<current_token, peek_token, definitions, defn, signature_tokens,
                bracket_stack, sig_depths, attempts, raised>>

(***************************************************************************)
(* Characters                                                              *)
(***************************************************************************)
Lower == {"a", "b", "c", "d", "e", "f", "g", "h", "i", "j", "k", "l", "m",
          "n", "o", "p", "q", "r", "s", "t", "u", "v", "w", "x", "y", "z"}
Upper == {"A", "B", "C", "D", "E", "F", "G", "H", "I", "J", "K", "L", "M",
          "N", "O", "P", "Q", "R", "S", "T", "U", "V", "W", "X", "Y", "Z"}
Digits == {"0", "1", "2", "3", "4", "5", "6", "7", "8", "9"}

\* the Greek letters listed in next_token
GreekLetters == {"α", "β", "γ", "δ", "ε", "ζ", "η", "θ", "ι", "κ", "λ", "μ",
                 "ν", "ξ", "ο", "π", "ρ", "σ", "τ", "υ", "φ", "χ", "ψ", "ω"}
\* the subscript letters and digits listed in read_identifier (five of the
\* listed letters, U+1D62..U+1D65 and U+2C7C, cannot be written in a TLA+
\* string; they are letters like the twelve kept here)
SubscriptLetters == {"ₐ", "ₑ", "ₕ", "ₖ", "ₗ", "ₘ", "ₙ", "ₒ", "ₚ", "ₛ", "ₜ", "ₓ"}
SubscriptDigits == {"₀", "₁", "₂", "₃", "₄", "₅", "₆", "₇", "₈", "₉"}

\* str.isalpha / str.isalnum on the characters the model uses
IsAlpha(c) ==
    c \in Lower \/ c \in Upper \/ c \in GreekLetters \/ c \in SubscriptLetters
IsAlnum(c) == IsAlpha(c) \/ c \in Digits \/ c \in SubscriptDigits

\* what peek() and advance() return past the end of the input
None == "None"

(***************************************************************************)
(* Lexer                                                                   *)
(***************************************************************************)
\* content[a:b]
Slice(s, a, b) == SubSeq(s, a + 1, b)

LexerInit == [position |-> 0, line |-> 1, column |-> 1]

Peek(c, ls, offset) ==
    LET pos == ls.position + offset
    IN  IF pos < Len(c) THEN c[pos + 1] ELSE None

\* a mutant of Advance: a newline does not send the column back to 1
AdvanceNoColumnReset(c, ls) ==
    IF ls.position >= Len(c) THEN ls
    ELSE LET char == c[ls.position + 1]
         IN  [position |-> ls.position + 1,
              line     |-> IF char = "\n" THEN ls.line + 1 ELSE ls.line,
              column   |-> ls.column + 1]

Advance(c, ls) ==
    IF ls.position >= Len(c) THEN ls
    ELSE LET char == c[ls.position + 1]
         IN  [position |-> ls.position + 1,
              line     |-> IF char = "\n" THEN ls.line + 1 ELSE ls.line,
              column   |-> IF char = "\n" THEN 1 ELSE ls.column + 1]

\* the three predicates handed to read_while
IsBlank(ch) == ch \in {" ", "\t"}
NotNewline(ch) == ch # "\n"
IsIdentChar(ch) ==
    \/ IsAlnum(ch)
    \/ ch \in {"_", "'"} \/ ch \in SubscriptLetters \/ ch \in SubscriptDigits

Accepts(pred, ch) ==
    CASE pred = "blank"      -> IsBlank(ch)
      [] pred = "notnewline" -> NotNewline(ch)
      [] pred = "identchar"  -> IsIdentChar(ch)

RECURSIVE ReadWhile(_, _, _)
ReadWhile(c, ls, pred) ==
    IF ls.position < Len(c) /\ Accepts(pred, c[ls.position + 1])
    THEN ReadWhile(c, Advance(c, ls), pred)
    ELSE ls

SkipWhitespace(c, ls) == ReadWhile(c, ls, "blank")

Token(type, value, ln, col) ==
    [type |-> type, value |-> value, line |-> ln, column |-> col]

\* a mutant of ReadLineComment: the two dashes are left out of the token text
ReadLineCommentNoPrefix(c, ls) ==
    LET s2 == Advance(c, Advance(c, ls))
        s3 == ReadWhile(c, s2, "notnewline")
    IN  [tok |-> Token("LINE_COMMENT", Slice(c, s2.position, s3.position),
                       ls.line, ls.column),
         ls  |-> s3]

ReadLineComment(c, ls) ==
    LET s2 == Advance(c, Advance(c, ls))
        s3 == ReadWhile(c, s2, "notnewline")
    IN  [tok |-> Token("LINE_COMMENT",
                       <<"-", "-">> \o Slice(c, s2.position, s3.position),
                       ls.line, ls.column),
         ls  |-> s3]

\* a mutant of NestingOpen: an inner "/-" does not nest
NestingOpenFlat(depth) == depth

\* the nesting step of read_block_comment on meeting "/-"
NestingOpen(depth) == depth + 1

RECURSIVE BlockCommentLoop(_, _, _, _)
BlockCommentLoop(c, ls, text, depth) ==
    IF depth > 0 /\ ls.position < Len(c)
    THEN IF Peek(c, ls, 0) = "-" /\ Peek(c, ls, 1) = "/"
         THEN BlockCommentLoop(c, Advance(c, Advance(c, ls)),
                               text \o <<"-", "/">>, depth - 1)
         ELSE IF Peek(c, ls, 0) = "/" /\ Peek(c, ls, 1) = "-"
         THEN BlockCommentLoop(c, Advance(c, Advance(c, ls)),
                               text \o <<"/", "-">>, NestingOpen(depth))
         ELSE BlockCommentLoop(c, Advance(c, ls),
                               Append(text, c[ls.position + 1]), depth)
    ELSE [ls |-> ls, text |-> text]

\* a mutant of ReadBlockComment: the doc marker decides the type of the token
\* but is not consumed before the nesting loop
ReadBlockCommentKeepMarker(c, ls) ==
    LET s2     == Advance(c, Advance(c, ls))
        is_doc == Peek(c, s2, 0) = "-"
        r      == BlockCommentLoop(c, s2, <<"/", "-">>, 1)
    IN  [tok |-> Token(IF is_doc THEN "DOC_COMMENT" ELSE "BLOCK_COMMENT",
                       r.text, ls.line, ls.column),
         ls  |-> r.ls]

ReadBlockComment(c, ls) ==
    LET s2     == Advance(c, Advance(c, ls))
        is_doc == Peek(c, s2, 0) = "-"
        s3     == IF is_doc THEN Advance(c, s2) ELSE s2
        text   == <<"/", "-">> \o (IF is_doc THEN <<"-">> ELSE <<>>)
        r      == BlockCommentLoop(c, s3, text, 1)
    IN  [tok |-> Token(IF is_doc THEN "DOC_COMMENT" ELSE "BLOCK_COMMENT",
                       r.text, ls.line, ls.column),
         ls  |-> r.ls]

\* a mutant of EscapesNext: a backslash is a character like any other
EscapesNextNever(c, char, ls) == FALSE

\* elif char == '\\' and self.position < len(self.content)
EscapesNext(c, char, ls) == char = "\\" /\ ls.position < Len(c)

RECURSIVE StringLoop(_, _, _, _)
StringLoop(c, ls, value, quote_char) ==
    IF ls.position < Len(c)
    THEN LET char == c[ls.position + 1]
             s1   == Advance(c, ls)
             v1   == Append(value, char)
         IN  IF char = quote_char THEN [ls |-> s1, value |-> v1]
             ELSE IF EscapesNext(c, char, s1)
             THEN StringLoop(c, Advance(c, s1),
                             Append(v1, c[s1.position + 1]), quote_char)
             ELSE StringLoop(c, s1, v1, quote_char)
    ELSE [ls |-> ls, value |-> value]

\* a mutant of ReadString: the quote is a token of its own and the text after
\* it is lexed as usual
ReadStringQuoteOnly(c, ls) ==
    [tok |-> Token("STRING", <<c[ls.position + 1]>>, ls.line, ls.column),
     ls  |-> Advance(c, ls)]

ReadString(c, ls) ==
    LET quote_char == c[ls.position + 1]
        r == StringLoop(c, Advance(c, ls), <<quote_char>>, quote_char)
    IN  [tok |-> Token("STRING", r.value, ls.line, ls.column), ls |-> r.ls]

kw_lemma         == <<"l", "e", "m", "m", "a">>
kw_theorem       == <<"t", "h", "e", "o", "r", "e", "m">>
kw_def           == <<"d", "e", "f">>
kw_class         == <<"c", "l", "a", "s", "s">>
kw_structure     == <<"s", "t", "r", "u", "c", "t", "u", "r", "e">>
kw_inductive     == <<"i", "n", "d", "u", "c", "t", "i", "v", "e">>
kw_variable      == <<"v", "a", "r", "i", "a", "b", "l", "e">>
kw_where         == <<"w", "h", "e", "r", "e">>
kw_by            == <<"b", "y">>
kw_private       == <<"p", "r", "i", "v", "a", "t", "e">>
kw_protected     == <<"p", "r", "o", "t", "e", "c", "t", "e", "d">>
kw_noncomputable == <<"n", "o", "n", "c", "o", "m", "p", "u", "t", "a", "b", "l", "e">>

\* a mutant of KeywordType: a run that begins with `by` is tagged as `by`
KeywordTypeByPrefix(value) ==
    CASE value = kw_lemma         -> "LEMMA"
      [] value = kw_theorem       -> "THEOREM"
      [] value = kw_def           -> "DEF"
      [] value = kw_class         -> "CLASS"
      [] value = kw_structure     -> "STRUCTURE"
      [] value = kw_inductive     -> "INDUCTIVE"
      [] value = kw_variable      -> "VARIABLE"
      [] value = kw_where         -> "WHERE"
      [] value = kw_private       -> "PRIVATE"
      [] value = kw_protected     -> "PROTECTED"
      [] value = kw_noncomputable -> "NONCOMPUTABLE"
      [] Len(value) >= 2 /\ SubSeq(value, 1, 2) = kw_by -> "BY"
      [] OTHER                    -> "IDENTIFIER"

\* keyword_map.get(value, TokenType.IDENTIFIER)
KeywordType(value) ==
    CASE value = kw_lemma         -> "LEMMA"
      [] value = kw_theorem       -> "THEOREM"
      [] value = kw_def           -> "DEF"
      [] value = kw_class         -> "CLASS"
      [] value = kw_structure     -> "STRUCTURE"
      [] value = kw_inductive     -> "INDUCTIVE"
      [] value = kw_variable      -> "VARIABLE"
      [] value = kw_where         -> "WHERE"
      [] value = kw_by            -> "BY"
      [] value = kw_private       -> "PRIVATE"
      [] value = kw_protected     -> "PROTECTED"
      [] value = kw_noncomputable -> "NONCOMPUTABLE"
      [] OTHER                    -> "IDENTIFIER"

ReadIdentifier(c, ls) ==
    LET s1    == ReadWhile(c, ls, "identchar")
        value == Slice(c, ls.position, s1.position)
    IN  [tok |-> Token(KeywordType(value), value, ls.line, ls.column), ls |-> s1]

\* a mutant of AttributeDepth: the first `]` closes the span
AttributeDepthFlat(char, bracket_depth) ==
    IF char = "]" THEN 0 ELSE bracket_depth

\* the bracket counter of read_attribute after reading char
AttributeDepth(char, bracket_depth) ==
    IF char = "[" THEN bracket_depth + 1
    ELSE IF char = "]" THEN bracket_depth - 1
    ELSE bracket_depth

RECURSIVE AttributeLoop(_, _, _, _)
AttributeLoop(c, ls, value, bracket_depth) ==
    IF bracket_depth > 0 /\ ls.position < Len(c)
    THEN LET char == Peek(c, ls, 0)
             d1   == AttributeDepth(char, bracket_depth)
         IN  AttributeLoop(c, Advance(c, ls), Append(value, char), d1)
    ELSE [ls |-> ls, value |-> value]

ReadAttribute(c, ls) ==
    LET r == AttributeLoop(c, Advance(c, Advance(c, ls)), <<"@", "[">>, 1)
    IN  [tok |-> Token("ATTRIBUTE", r.value, ls.line, ls.column), ls |-> r.ls]

\* the single-character branch of next_token
SingleCharType(char) ==
    CASE char = "("  -> "LPAREN"
      [] char = ")"  -> "RPAREN"
      [] char = "["  -> "LBRACKET"
      [] char = "]"  -> "RBRACKET"
      [] char = "{"  -> "LBRACE"
      [] char = "}"  -> "RBRACE"
      [] char = ":"  -> "COLON"
      [] char = "\n" -> "NEWLINE"
      [] OTHER       -> "OTHER"

\* a mutant of ReadOther: the character is not consumed
ReadOtherNoAdvance(c, ls) ==
    [tok |-> Token("OTHER", <<Peek(c, ls, 0)>>, ls.line, ls.column), ls |-> ls]

\* the last branch of next_token: any other character
ReadOther(c, ls) ==
    [tok |-> Token("OTHER", <<Peek(c, ls, 0)>>, ls.line, ls.column),
     ls  |-> Advance(c, ls)]

\* a mutant of IsAssignStart: the two-character test is never taken
IsAssignStartNever(c, ls) == FALSE

\* char == ':' and self.peek(1) == '='
IsAssignStart(c, ls) == Peek(c, ls, 0) = ":" /\ Peek(c, ls, 1) = "="

\* next_token after skip_whitespace has run: ls is the state at the token's start
ScanToken(c, ls) ==
    IF ls.position >= Len(c)
    THEN [tok |-> Token("EOF", <<>>, ls.line, ls.column), ls |-> ls]
    ELSE LET char == Peek(c, ls, 0)
         IN  IF char = "-" /\ Peek(c, ls, 1) = "-" THEN ReadLineComment(c, ls)
             ELSE IF char = "/" /\ Peek(c, ls, 1) = "-" THEN ReadBlockComment(c, ls)
             ELSE IF IsAssignStart(c, ls)
             THEN [tok |-> Token("ASSIGN", <<":", "=">>, ls.line, ls.column),
                   ls  |-> Advance(c, Advance(c, ls))]
             ELSE IF char = "@" /\ Peek(c, ls, 1) = "[" THEN ReadAttribute(c, ls)
             ELSE IF char \in {"(", ")", "[", "]", "{", "}", ":", "\n"}
             THEN [tok |-> Token(SingleCharType(char), <<char>>, ls.line, ls.column),
                   ls  |-> Advance(c, ls)]
             ELSE IF char \in {"\"", "'"} THEN ReadString(c, ls)
             ELSE IF IsAlpha(char) \/ char = "_" \/ char \in GreekLetters
             THEN ReadIdentifier(c, ls)
             ELSE ReadOther(c, ls)

NextToken(c, ls) == ScanToken(c, SkipWhitespace(c, ls))

\* history entry of one next_token call: where it was called, where the token
\* starts (after the skipped blanks) and where the scan stands afterwards
LogEntry(c, ls) ==
    LET r == NextToken(c, ls)
    IN  [tok |-> r.tok, called |-> ls.position,
         start |-> SkipWhitespace(c, ls).position, end |-> r.ls.position]

(***************************************************************************)
(* Inputs                                                                  *)
(***************************************************************************)
\* the literal inputs of the end-to-end scenarios
TheoremFoo ==
    <<"t", "h", "e", "o", "r", "e", "m", " ", "f", "o", "o", " ", "(", "a",
      " ", ":", " ", "N", "a", "t", ")", " ", "(", "b", " ", ":", " ", "N",
      "a", "t", ")", " ", ":", " ", "a", " ", "+", " ", "b", " ", "=", " ",
      "b", " ", "+", " ", "a", " ", ":", "=", " ", "b", "y", " ", "r", "i",
      "n", "g">>

LemmaBar ==
    <<"@", "[", "s", "i", "m", "p", "]", " ", "l", "e", "m", "m", "a", " ",
      "b", "a", "r", " ", ":", " ", "1", " ", "=", " ", "1", " ", ":", "=",
      " ", "r", "f", "l">>

VariableX ==
    <<"v", "a", "r", "i", "a", "b", "l", "e", " ", "(", "x", " ", ":", " ",
      "N", "a", "t", ")", "\n">>

NestedCommentBaz ==
    <<"/", "-", " ", "o", "u", "t", "e", "r", " ", "/", "-", " ", "i", "n",
      "n", "e", "r", " ", "-", "/", " ", "s", "t", "i", "l", "l", " ", "o",
      "u", "t", "e", "r", " ", "-", "/", "\n", "d", "e", "f", " ", "b", "a",
      "z", " ", ":", " ", "N", "a", "t", " ", ":", "=", " ", "0">>

PrivatePrivateTheorem ==
    <<"p", "r", "i", "v", "a", "t", "e", " ", "p", "r", "i", "v", "a", "t",
      "e", " ", "t", "h", "e", "o", "r", "e", "m">>

DefBaz ==
    <<"d", "e", "f", " ", "b", "a", "z", " ", ":", " ", "N", "a", "t", " ",
      ":", "=", " ", "0">>

\* further literal inputs
\* a bracket group holding a colon, then a top-level colon and a type
NestedColon ==
    <<"s", "t", "r", "u", "c", "t", "u", "r", "e", " ", "P", " ", "(", "a",
      " ", ":", " ", "N", "a", "t", ")", " ", ":", " ", "T", "y", "p", "e",
      " ", "w", "h", "e", "r", "e">>

\* an assignment marker inside a bracket group
DefaultArg ==
    <<"d", "e", "f", " ", "f", " ", "(", "a", " ", ":", "=", " ", "1", ")",
      " ", ":", " ", "T", " ", ":", "=", " ", "x">>

\* a declaration written inside a plain block comment
CommentedDecl ==
    <<"/", "-", " ", "d", "e", "f", " ", "q", " ", ":", " ", "N", "a", "t",
      " ", ":", "=", " ", "1", " ", "-", "/", "\n", "d", "e", "f", " ", "b",
      "a", "z", " ", ":", " ", "N", "a", "t", " ", ":", "=", " ", "0">>

\* an opening marker directly followed by a closing marker
EmptyDocMarker ==
    <<"/", "-", "-", "/", "\n", "d", "e", "f", " ", "b", "a", "z", " ", ":",
      " ", "N", "a", "t", " ", ":", "=", " ", "0">>

\* closing brackets that match nothing, among brackets of the three families
MixedBrackets ==
    <<"d", "e", "f", " ", "f", " ", ")", " ", "(", " ", "[", " ", "{", " ",
      ")", " ", "]", " ", "}", " ", "]", " ", ")", " ", ":", "=", " ", "x">>

\* a declaration without a terminator, followed by a documented, attributed
\* private theorem
Unterminated ==
    <<"d", "e", "f", " ", "a", " ", ":", " ", "T", "\n", "/", "-", "-", " ",
      "d", " ", "-", "/", " ", "@", "[", "s", "i", "m", "p", "]", " ", "p",
      "r", "i", "v", "a", "t", "e", " ", "t", "h", "e", "o", "r", "e", "m",
      " ", "b", " ", ":", " ", "U", " ", ":", "=", " ", "e">>

\* a declaration whose opening bracket is never closed, followed by two
\* complete declarations
Unclosed ==
    <<"d", "e", "f", " ", "a", " ", "(", "x", " ", ":", " ", "T", " ", ":",
      "=", " ", "1", "\n", "t", "h", "e", "o", "r", "e", "m", " ", "b", " ",
      ":", " ", "U", " ", ":", "=", " ", "e", "\n", "l", "e", "m", "m", "a",
      " ", "c", " ", ":", " ", "V", " ", ":", "=", " ", "e">>

\* a colon and an equals sign with a blank between them, then an assignment
\* marker
SpacedAssign ==
    <<"d", "e", "f", " ", "f", " ", ":", " ", "=", " ", "x", " ", ":", "=",
      " ", "y">>

\* runs that contain or extend a keyword, at the top level and in a signature
NearKeywords ==
    <<"b", "y", "t", "e", "s", " ", "n", " ", ":", "=", " ", "1", "\n", "d",
      "e", "f", " ", "f", " ", "b", "y", "t", "e", "s", " ", "d", "e", "f",
      "'", " ", "w", "h", "e", "r", "e", "_", "x", " ", "α", "b", "y", " ",
      "x", "₁", " ", ":", "=", " ", "e">>

\* `:=`, `where`, `by`, a newline and opening brackets inside a line comment,
\* a string, a block comment and an attribute span of a signature
HiddenTerminators ==
    <<"d", "e", "f", " ", "f", " ", "-", "-", " ", ":", "=", " ", "(",
      "\n", " ", "\"", "a", " ", ":", "=", " ", "[", " ", "b", "\"", " ",
      "/", "-", " ", "b", "y", " ", "{", " ", "-", "/", " ", "@", "[",
      "s", " ", "w", "h", "e", "r", "e", " ", "(", "]", " ", ":", " ",
      "T", " ", ":", "=", " ", "e">>

\* newlines inside a block comment, a string and an attribute span of the
\* signature of a `variable`
HiddenNewlines ==
    <<"v", "a", "r", "i", "a", "b", "l", "e", " ", "v", " ", "/", "-",
      " ", "a", "\n", "b", " ", "-", "/", " ", "\"", "c", "\n", "d", "\"",
      " ", "@", "[", "e", "\n", "f", "]", " ", "x", "\n", "y">>

\* three modifiers on the line of a `def`, then an attribute and two modifiers
\* on the line before a theorem
ModifierLines ==
    <<"p", "r", "i", "v", "a", "t", "e", " ", "n", "o", "n", "c", "o",
      "m", "p", "u", "t", "a", "b", "l", "e", " ", "p", "r", "o", "t",
      "e", "c", "t", "e", "d", " ", "d", "e", "f", " ", "m", " ", ":",
      "=", " ", "1", "\n", "@", "[", "a", "]", " ", "p", "r", "o", "t",
      "e", "c", "t", "e", "d", " ", "p", "r", "i", "v", "a", "t", "e",
      "\n", "t", "h", "e", "o", "r", "e", "m", " ", "t", " ", ":", " ",
      "T", " ", ":", "=", " ", "e">>

\* a doc comment, an attribute, a modifier and the keyword of a theorem on four
\* lines, then an attribute followed by a doc comment and a `def`
DocLines ==
    <<"\n", "/", "-", "-", " ", "d", " ", "-", "/", "\n", "\n", "@", "[",
      "a", "]", "\n", "p", "r", "i", "v", "a", "t", "e", " ", "t", "h",
      "e", "o", "r", "e", "m", " ", "t", " ", ":", " ", "T", " ", ":",
      "=", " ", "e", "\n", "@", "[", "b", "]", "\n", "/", "-", "-", " ",
      "e", " ", "-", "/", " ", "d", "e", "f", " ", "g", " ", ":", "=",
      " ", "1">>

\* a `def` whose body holds a modifier and a theorem, whose body holds a doc
\* comment, an attribute and a lemma, whose body holds an inductive
BodyDeclarations ==
    <<"d", "e", "f", " ", "f", " ", ":", "=", " ", "b", "y", "\n", " ",
      " ", "p", "r", "i", "v", "a", "t", "e", " ", "t", "h", "e", "o",
      "r", "e", "m", " ", "g", " ", ":", " ", "T", " ", ":", "=", " ",
      "/", "-", "-", " ", "d", " ", "-", "/", " ", "@", "[", "s", "]",
      " ", "l", "e", "m", "m", "a", " ", "h", " ", "w", "h", "e", "r",
      "e", " ", "i", "n", "d", "u", "c", "t", "i", "v", "e", " ", "i">>

\* a string with an escaped quote and an escaped backslash before its closing
\* quote, then a string left open
EscapedQuotes ==
    <<"d", "e", "f", " ", "s", " ", ":", "=", " ", "\"", "a", "\\", "\"",
      "b", "\\", "\\", "\"", " ", "c", " ", "'", "d">>

Examples ==
    {NestedColon, DefaultArg, CommentedDecl, EmptyDocMarker, MixedBrackets,
     Unterminated, Unclosed, SpacedAssign, NearKeywords, HiddenTerminators,
     HiddenNewlines, ModifierLines, DocLines, BodyDeclarations, EscapedQuotes}

RECURSIVE Cat(_)
\* "".join(words)
Cat(words) == IF words = <<>> THEN <<>> ELSE Head(words) \o Cat(Tail(words))

SeqsUpTo(S, n) == UNION {[1..k -> S] : k \in 0..n}

Scenarios ==
    {TheoremFoo, LemmaBar, VariableX, NestedCommentBaz, PrivatePrivateTheorem}

\* every text of at most MaxLen characters over LexAlphabet
MaxLen == 3
LexAlphabet == {" ", "\t", "\n", "-", "/", ":", "=", "@", "[", "]", "(", "\"", "\\", "a"}
CharFamily == SeqsUpTo(LexAlphabet, MaxLen)

\* comment markers, a blank, a letter, a dash and a newline: at most MaxCommentWords of them
MaxCommentWords == 5
CommentWords == {<<"/", "-">>, <<"-", "/">>, <<"-">>, <<" ">>, <<"a">>, <<"\n">>}
CommentFamily == {Cat(ws) : ws \in SeqsUpTo(CommentWords, MaxCommentWords)}

\* a string, an attribute span and a block comment that each run over a line
\* end, with blanks and tokens between and after them
MultiLineTokens ==
    <<"\"", "a", "\n", "b", "\"", " ", "@", "[", "s", "\n", "t", "]", "\n",
      " ", "/", "-", " ", "c", "\n", " ", "-", "/", " ", "\t", " ", "x">>

\* attribute openers, brackets, a letter and a blank: at most MaxAttrWords of them
MaxAttrWords == 5
AttrWords == {<<"@", "[">>, <<"[">>, <<"]">>, <<"a">>, <<" ">>}
AttrFamily == {Cat(ws) : ws \in SeqsUpTo(AttrWords, MaxAttrWords)}

\* the two quotes, a backslash and a letter: at most MaxStringWords of them
MaxStringWords == 5
StringWords == {<<"\"">>, <<"'">>, <<"\\">>, <<"a">>}
StringFamily == {Cat(ws) : ws \in SeqsUpTo(StringWords, MaxStringWords)}

LexInputs ==
    Scenarios \cup Examples \cup {MultiLineTokens} \cup CharFamily \cup CommentFamily
        \cup AttrFamily \cup StringFamily

(***************************************************************************)
(* The lexer driven on its own: next_token called until it returns EOF     *)
(***************************************************************************)
NoToken == Token("None", <<>>, 0, 0)
NoDefinition ==
    [doc_comment |-> <<>>, attributes |-> <<>>, modifiers |-> <<>>,
     def_type |-> <<>>, name |-> <<>>, signature |-> <<>>, line |-> 0]

ParserIdle ==
    /\ current_token = NoToken
    /\ peek_token = NoToken
    /\ definitions = <<>>
    /\ defn = NoDefinition
    /\ signature_tokens = <<>>
    /\ bracket_stack = <<>>
    /\ sig_depths = <<>>
    /\ attempts = <<>>
    /\ raised = FALSE

LexInit ==
    /\ content \in LexInputs
    /\ position = LexerInit.position
    /\ line = LexerInit.line
    /\ column = LexerInit.column
    /\ lexlog = <<>>
    /\ ParserIdle
    /\ pc = "lex"

LexState == [position |-> position, line |-> line, column |-> column]

\* one call of Lexer.next_token
LexStep ==
    /\ pc = "lex"
    /\ Len(lexlog) <= Len(content)
    /\ LET r == NextToken(content, LexState)
       IN  /\ position' = r.ls.position
           /\ line' = r.ls.line
           /\ column' = r.ls.column
           /\ lexlog' = Append(lexlog, LogEntry(content, LexState))
           /\ pc' = IF r.tok.type = "EOF" THEN "eof" ELSE "lex"
    /\ UNCHANGED <<content, parservars>>

LexNext == LexStep

LexSpec == LexInit /\ [][LexNext]_vars

(***************************************************************************)
(* Parser                                                                  *)
(***************************************************************************)
\* the token kinds Parser.parse and Parser.parse_definition test for
\* a mutant of DeclTypes: `inductive` and `variable` are not declaration kinds
DeclTypesFive == {"LEMMA", "THEOREM", "DEF", "CLASS", "STRUCTURE"}

DeclTypes == {"LEMMA", "THEOREM", "DEF", "CLASS", "STRUCTURE", "INDUCTIVE", "VARIABLE"}
ModifierTypes == {"PRIVATE", "PROTECTED", "NONCOMPUTABLE"}
SkippedTypes == {"WHITESPACE", "NEWLINE", "LINE_COMMENT", "BLOCK_COMMENT"}
StartTypes == {"DOC_COMMENT", "ATTRIBUTE"} \cup ModifierTypes \cup DeclTypes
OpenTypes == {"LPAREN", "LBRACKET", "LBRACE"}

\* the parser's cursor: its two tokens, the lexer behind them and the call history
PAdvance(c, ps) ==
    LET r == NextToken(c, ps.ls)
    IN  [cur |-> ps.peek, peek |-> r.tok, ls |-> r.ls,
         log |-> Append(ps.log, LogEntry(c, ps.ls))]

\* Parser.__init__
ParserNew(c) ==
    PAdvance(c, PAdvance(c, [cur |-> NoToken, peek |-> NoToken,
                             ls |-> LexerInit, log |-> <<>>]))

RECURSIVE SkipWhile(_, _, _)
\* while self.current_token.type in types: self.advance()
SkipWhile(c, ps, types) ==
    IF ps.cur.type \in types THEN SkipWhile(c, PAdvance(c, ps), types) ELSE ps

\* a mutant of ParseDoc: the doc comment is recorded but not consumed
ParseDocNoAdvance(c, ps, d) ==
    IF ps.cur.type = "DOC_COMMENT"
    THEN [ps |-> ps,
          d  |-> [d EXCEPT !.doc_comment = ps.cur.value, !.line = ps.cur.line]]
    ELSE [ps |-> ps, d |-> d]

ParseDoc(c, ps, d) ==
    IF ps.cur.type = "DOC_COMMENT"
    THEN [ps |-> SkipWhile(c, PAdvance(c, ps), {"WHITESPACE", "NEWLINE"}),
          d  |-> [d EXCEPT !.doc_comment = ps.cur.value, !.line = ps.cur.line]]
    ELSE [ps |-> ps, d |-> d]

\* a mutant of ProvisionalLine: a later token of the attempt overwrites the line
ProvisionalLineOverwrite(old, new) == new

\* if defn.line == 0: defn.line = self.current_token.line
ProvisionalLine(old, new) == IF old = 0 THEN new ELSE old

\* a mutant of AddAttribute: the attribute is put in front of the list
AddAttributeFirst(attributes, value) == <<value>> \o attributes

\* defn.attributes.append(value)
AddAttribute(attributes, value) == Append(attributes, value)

RECURSIVE ParseAttributes(_, _, _)
ParseAttributes(c, ps, d) ==
    IF ps.cur.type = "ATTRIBUTE"
    THEN ParseAttributes(c, SkipWhile(c, PAdvance(c, ps), {"WHITESPACE", "NEWLINE"}),
                         [d EXCEPT !.attributes = AddAttribute(@, ps.cur.value),
                                   !.line = ProvisionalLine(@, ps.cur.line)])
    ELSE [ps |-> ps, d |-> d]

\* a mutant of ModifierSkipTypes: newlines after a modifier are skipped too
ModifierSkipTypesNewline == {"WHITESPACE", "NEWLINE"}

\* what is skipped after a modifier
ModifierSkipTypes == {"WHITESPACE"}

RECURSIVE ParseModifiers(_, _, _)
ParseModifiers(c, ps, d) ==
    IF ps.cur.type \in ModifierTypes
    THEN ParseModifiers(c, SkipWhile(c, PAdvance(c, ps), ModifierSkipTypes),
                        [d EXCEPT !.modifiers = Append(@, ps.cur.value),
                                  !.line = ProvisionalLine(@, ps.cur.line)])
    ELSE [ps |-> ps, d |-> d]

\* a mutant of IsTopLevelEnd: a newline ends the signature of every kind
IsTopLevelEndNewlineAny(tok, def_type) ==
    tok.type \in {"ASSIGN", "WHERE", "BY", "NEWLINE"}

\* a mutant of IsTopLevelEnd: `by` is not among the tokens that end a signature
IsTopLevelEndNoBy(tok, def_type) ==
    \/ tok.type = "ASSIGN"
    \/ tok.type = "WHERE"
    \/ def_type = kw_variable /\ tok.type = "NEWLINE"

\* the tokens that end a signature at the top level
IsTopLevelEnd(tok, def_type) ==
    \/ tok.type = "ASSIGN"
    \/ tok.type = "WHERE"
    \/ tok.type = "BY"
    \/ def_type = kw_variable /\ tok.type = "NEWLINE"

\* a mutant of EndsSignature: a token that can start a declaration also ends
\* the signature
EndsSignatureAtDeclaration(tok, stack, def_type) ==
    \/ stack = <<>> /\ IsTopLevelEnd(tok, def_type)
    \/ tok.type \in StartTypes

\* a mutant of EndsSignature: the bracket stack is not consulted
EndsSignatureAnyDepth(tok, stack, def_type) == IsTopLevelEnd(tok, def_type)

\* the signature scan stops before this token
EndsSignature(tok, stack, def_type) ==
    /\ stack = <<>>
    /\ IsTopLevelEnd(tok, def_type)

\* a mutant of StackGuard: the guard is left out
StackGuardDropped(stack) == TRUE

\* `bracket_stack and ...`, the guard in front of bracket_stack[-1]
StackGuard(stack) == stack # <<>>

\* bracket_stack[-1]; indexing an empty list raises IndexError
StackTop(stack) == IF stack = <<>> THEN "IndexError" ELSE stack[Len(stack)]

CloserOf(type) ==
    CASE type = "RPAREN"   -> "LPAREN"
      [] type = "RBRACKET" -> "LBRACKET"
      [] type = "RBRACE"   -> "LBRACE"
      [] OTHER             -> "None"

\* a mutant of IsNameToken: whatever follows the keyword is taken as the name
IsNameTokenAny(tok) == tok.type # "EOF"

\* the test in front of the name
IsNameToken(tok) == tok.type = "IDENTIFIER"

\* a mutant of TrackBrackets: any closing bracket pops a non-empty stack
TrackBracketsAnyCloser(tok, stack) ==
    IF tok.type \in OpenTypes THEN Append(stack, tok.type)
    ELSE IF CloserOf(tok.type) # "None" /\ StackGuard(stack)
    THEN SubSeq(stack, 1, Len(stack) - 1)
    ELSE stack

\* the bracket tracking of one signature token
TrackBrackets(tok, stack) ==
    IF tok.type \in OpenTypes THEN Append(stack, tok.type)
    ELSE IF /\ CloserOf(tok.type) # "None"
            /\ StackGuard(stack)
            /\ StackTop(stack) = CloserOf(tok.type)
    THEN SubSeq(stack, 1, Len(stack) - 1)
    ELSE stack

\* the evaluation of bracket_stack[-1] raises
TrackRaises(tok, stack) ==
    /\ tok.type \notin OpenTypes
    /\ CloserOf(tok.type) # "None"
    /\ StackGuard(stack)
    /\ StackTop(stack) = "IndexError"

\* str.strip()
IsSpace(ch) == ch \in {" ", "\t", "\n", "\r"}

RECURSIVE LStrip(_)
LStrip(s) == IF s # <<>> /\ IsSpace(Head(s)) THEN LStrip(Tail(s)) ELSE s

RECURSIVE RStrip(_)
RStrip(s) ==
    IF s # <<>> /\ IsSpace(s[Len(s)]) THEN RStrip(SubSeq(s, 1, Len(s) - 1)) ELSE s

Strip(s) == RStrip(LStrip(s))

\* the history entry of the call that returned current_token
CurrentEntry == lexlog[Len(lexlog) - 1]

PS == [cur |-> current_token, peek |-> peek_token, ls |-> LexState, log |-> lexlog]

SetPS(ps) ==
    /\ current_token' = ps.cur
    /\ peek_token' = ps.peek
    /\ position' = ps.ls.position
    /\ line' = ps.ls.line
    /\ column' = ps.ls.column
    /\ lexlog' = ps.log

(***************************************************************************)
(* Inputs of the parser                                                    *)
(***************************************************************************)
\* a declaration header followed by at most MaxSigWords signature words
MaxSigWords == 3
SigHeaders == {<<"d", "e", "f", " ", "f", " ">>,
               <<"v", "a", "r", "i", "a", "b", "l", "e", " ", "v", " ">>}
SigWords == {<<"(">>, <<")">>, <<"]">>, <<":", "=">>, <<"b", "y", " ">>,
             <<"w", "h", "e", "r", "e", " ">>, <<"\n">>, <<"x", " ">>,
             <<"d", "e", "f", " ", "g", " ">>}
SigFamily ==
    {h \o Cat(ws) : h \in SigHeaders, ws \in SeqsUpTo(SigWords, MaxSigWords)}

\* unterminated strings, comments and attributes, unknown characters, stray
\* brackets and incomplete declarations: at most MaxNoiseWords of them
MaxNoiseWords == 3
NoiseWords == {<<"d", "e", "f", " ">>, <<"d", "e", "f", " ", "f", " ">>, <<"\"">>, <<"/", "-">>,
               <<"-", "/">>, <<"@", "[">>, <<")">>, <<"(">>, <<"$">>}
NoiseFamily == {Cat(ws) : ws \in SeqsUpTo(NoiseWords, MaxNoiseWords)}

\* a declaration that follows the malformed `private private theorem`
RecoverySeparators == {<<" ">>, <<"\n">>, <<"\n", "\n">>}
RecoveryTails == {DefBaz, LemmaBar, TheoremFoo, DefBaz \o <<"\n">> \o LemmaBar}
RecoveryFamily ==
    {PrivatePrivateTheorem \o sep \o t : sep \in RecoverySeparators, t \in RecoveryTails}

\* the twelve keywords of keyword_map, each written as the head of a
\* declaration named n, one per line
KeywordList ==
    <<kw_lemma, kw_theorem, kw_def, kw_class, kw_structure, kw_inductive,
      kw_variable, kw_where, kw_by, kw_private, kw_protected, kw_noncomputable>>
AllKeywords ==
    Cat([i \in DOMAIN KeywordList |->
            KeywordList[i] \o <<" ", "n", " ", ":", "=", "\n">>])

\* a declaration of each of the seven kinds whose signature has a newline
\* inside a bracket group and a newline outside of it
NewlineTail ==
    <<" ", "n", " ", "(", "a", "\n", "b", ")", " ", "c", "\n", "d", " ", ":",
      "=", " ", "e", "\n">>
NewlineFamily == {KeywordList[i] \o NewlineTail : i \in 1..7}

\* colons, equals signs, blanks and a letter, at most MaxAssignWords of them,
\* after a declaration header
MaxAssignWords == 3
AssignWords == {<<":">>, <<"=">>, <<" ">>, <<"x">>}
AssignFamily ==
    {<<"d", "e", "f", " ", "f", " ">> \o Cat(ws) :
        ws \in SeqsUpTo(AssignWords, MaxAssignWords)}

\* keywords and the characters that extend them, at most MaxKeywordWords of
\* them, after a declaration header
MaxKeywordWords == 2
KeywordWords == {<<"b", "y">>, <<"d", "e", "f">>, <<"w", "h", "e", "r", "e">>,
                 <<"s">>, <<"'">>, <<"_">>, <<" ">>, <<"₁">>}
KeywordFamily ==
    {<<"t", "h", "e", "o", "r", "e", "m", " ", "t", " ">> \o Cat(ws) :
        ws \in SeqsUpTo(KeywordWords, MaxKeywordWords)}

\* attributes, a doc comment, a modifier, newlines and pieces of declarations,
\* at most MaxPrefixWords of them, in front of a complete theorem
MaxPrefixWords == 3
PrefixWords == {<<"@", "[", "a", "]", " ">>, <<"@", "[", "b", "]">>, <<"\n">>,
                <<"p", "r", "i", "v", "a", "t", "e", " ">>,
                <<"/", "-", "-", " ", "d", " ", "-", "/">>,
                <<"d", "e", "f", " ">>, <<"d", "e", "f", " ", "g", " ">>,
                <<":", "=", " ">>}
PrefixTail ==
    <<"t", "h", "e", "o", "r", "e", "m", " ", "t", " ", ":", " ", "T", " ",
      ":", "=", " ", "e">>
PrefixFamily ==
    {Cat(ws) \o PrefixTail : ws \in SeqsUpTo(PrefixWords, MaxPrefixWords)}

ParseInputs ==
    Scenarios \cup Examples \cup SigFamily \cup NoiseFamily \cup RecoveryFamily
        \cup PrefixFamily \cup {AllKeywords} \cup NewlineFamily \cup AssignFamily
        \cup KeywordFamily

(***************************************************************************)
(* Parser(content).parse()                                                 *)
(***************************************************************************)
Init ==
    /\ content \in ParseInputs
    /\ LET ps == ParserNew(content)
       IN  /\ current_token = ps.cur
           /\ peek_token = ps.peek
           /\ position = ps.ls.position
           /\ line = ps.ls.line
           /\ column = ps.ls.column
           /\ lexlog = ps.log
    /\ definitions = <<>>
    /\ defn = NoDefinition
    /\ signature_tokens = <<>>
    /\ bracket_stack = <<>>
    /\ sig_depths = <<>>
    /\ attempts = <<>>
    /\ raised = FALSE
    /\ pc = "scan"

defvars == <<definitions, defn, signature_tokens, bracket_stack, sig_depths,
             attempts, raised>>

\* parse: whitespace, newlines and regular comments are skipped
ScanSkip ==
    /\ pc = "scan"
    /\ current_token.type # "EOF"
    /\ current_token.type \in SkippedTypes
    /\ SetPS(PAdvance(content, PS))
    /\ UNCHANGED <<content, defvars, pc>>

\* parse: any other token that cannot start a definition is passed over
ScanOther ==
    /\ pc = "scan"
    /\ current_token.type # "EOF"
    /\ current_token.type \notin SkippedTypes
    /\ current_token.type \notin StartTypes
    /\ SetPS(PAdvance(content, PS))
    /\ UNCHANGED <<content, defvars, pc>>

\* parse_definition is called: doc comment, attributes, modifiers
BeginDefinition ==
    /\ pc = "scan"
    /\ current_token.type # "EOF"
    /\ current_token.type \notin SkippedTypes
    /\ current_token.type \in StartTypes
    /\ LET r1 == ParseDoc(content, PS, NoDefinition)
           r2 == ParseAttributes(content, r1.ps, r1.d)
           r3 == ParseModifiers(content, r2.ps, r2.d)
       IN  /\ SetPS(r3.ps)
           /\ defn' = r3.d
    /\ attempts' = Append(attempts, [first |-> Len(lexlog) - 1, name_at |-> 0,
                                     end_at |-> 0, emitted |-> 0])
    /\ signature_tokens' = <<>>
    /\ bracket_stack' = <<>>
    /\ sig_depths' = <<>>
    /\ pc' = "kind"
    /\ UNCHANGED <<content, definitions, raised>>

\* a mutant of AfterAbandon: the token that failed the test is consumed
AfterAbandonConsumed(c, ps) == PAdvance(c, ps)

\* `return None`: the cursor stays on the token that failed the test
AfterAbandon(c, ps) == ps

\* parse_definition: the definition type, or None
ExpectKind ==
    /\ pc = "kind"
    /\ IF current_token.type \notin DeclTypes
       THEN /\ defn' = NoDefinition
            /\ pc' = "scan"
            /\ SetPS(AfterAbandon(content, PS))
            /\ attempts' = [attempts EXCEPT ![Len(attempts)].end_at = Len(lexlog) - 1]
       ELSE /\ defn' = [defn EXCEPT !.def_type = current_token.value,
                                    !.line = ProvisionalLine(@, current_token.line)]
            /\ SetPS(SkipWhile(content, PAdvance(content, PS), {"WHITESPACE"}))
            /\ pc' = "name"
            /\ UNCHANGED attempts
    /\ UNCHANGED <<content, definitions, signature_tokens, bracket_stack,
                   sig_depths, raised>>

\* parse_definition: the name, or None
ExpectName ==
    /\ pc = "name"
    /\ IF ~IsNameToken(current_token)
       THEN /\ defn' = NoDefinition
            /\ pc' = "scan"
            /\ SetPS(AfterAbandon(content, PS))
            /\ attempts' = [attempts EXCEPT ![Len(attempts)].end_at = Len(lexlog) - 1]
       ELSE /\ defn' = [defn EXCEPT !.name = current_token.value]
            /\ SetPS(PAdvance(content, PS))
            /\ attempts' = [attempts EXCEPT ![Len(attempts)].name_at = Len(lexlog) - 1]
            /\ pc' = "sig"
    /\ UNCHANGED <<content, definitions, signature_tokens, bracket_stack,
                   sig_depths, raised>>

SigContinues ==
    /\ current_token.type # "EOF"
    /\ ~EndsSignature(current_token, bracket_stack, defn.def_type)

\* parse_definition: one token is appended to the signature
SigAppend ==
    /\ pc = "sig"
    /\ SigContinues
    /\ IF TrackRaises(current_token, bracket_stack)
       THEN /\ raised' = TRUE
            /\ pc' = "raised"
            /\ UNCHANGED <<lexvars, current_token, peek_token, signature_tokens,
                           bracket_stack, sig_depths>>
       ELSE /\ bracket_stack' = TrackBrackets(current_token, bracket_stack)
            /\ signature_tokens' = Append(signature_tokens, current_token.value)
            /\ sig_depths' = Append(sig_depths, [type  |-> current_token.type,
                                                 depth |-> Len(bracket_stack)])
            /\ SetPS(PAdvance(content, PS))
            /\ UNCHANGED <<raised, pc>>
    /\ UNCHANGED <<content, definitions, defn, attempts>>

\* a mutant of EmitDefinition: the Definition is appended twice
EmitDefinitionTwice(defs, d) == Append(Append(defs, d), d)

\* a mutant of EmitDefinition: the Definition is put in front of the list
EmitDefinitionFirst(defs, d) == <<d>> \o defs

\* definitions.append(defn)
EmitDefinition(defs, d) == Append(defs, d)

\* a mutant of AfterEmit: the token that ended the signature is consumed
AfterEmitConsumed(c, ps) == PAdvance(c, ps)

\* `break`, `return defn`: the cursor stays on the token that ended the signature
AfterEmit(c, ps) == ps

\* parse_definition returns the Definition and parse appends it
SigEnd ==
    /\ pc = "sig"
    /\ ~SigContinues
    /\ definitions' = EmitDefinition(definitions,
                             [defn EXCEPT !.signature = Strip(Cat(signature_tokens))])
    /\ attempts' = [attempts EXCEPT ![Len(attempts)].end_at = Len(lexlog) - 1,
                                    ![Len(attempts)].emitted = Len(definitions) + 1]
    /\ pc' = "scan"
    /\ SetPS(AfterEmit(content, PS))
    /\ UNCHANGED <<content, defn, signature_tokens, bracket_stack, sig_depths,
                   raised>>

\* parse returns `definitions`
ParseReturn ==
    /\ pc = "scan"
    /\ current_token.type = "EOF"
    /\ pc' = "done"
    /\ UNCHANGED <<content, lexvars, current_token, peek_token, defvars>>

Next ==
    \/ ScanSkip
    \/ ScanOther
    \/ BeginDefinition
    \/ ExpectKind
    \/ ExpectName
    \/ SigAppend
    \/ SigEnd
    \/ ParseReturn

Spec == Init /\ [][Next]_vars

(***************************************************************************)
(* Properties of the lexer                                                 *)
(***************************************************************************)
\* the token texts returned so far, in order, joined
TokenTexts == Cat([i \in DOMAIN lexlog |-> lexlog[i].tok.value])

LastIsEOF == lexlog # <<>> /\ lexlog[Len(lexlog)].tok.type = "EOF"

\* C1: losslessness: once next_token has returned EOF, the concatenation of the
\* texts of all tokens returned, in order, is the input
C1_Lossless == pc = "eof" => TokenTexts = content

\* every call so far that returned a token other than EOF moved the scan
\* position forward, EOF was returned at most once, as the last token and with
\* the whole input consumed, and no call raised
LexerProgress ==
    /\ ~raised
    /\ position <= Len(content)
    /\ \A i \in DOMAIN lexlog :
          /\ lexlog[i].tok.type # "EOF" => lexlog[i].called < lexlog[i].end
          /\ lexlog[i].tok.type = "EOF" =>
                i = Len(lexlog) /\ lexlog[i].end = Len(content)
    /\ Len(lexlog) <= Len(content) + 1
    /\ pc = "eof" => LastIsEOF /\ position = Len(content)
    /\ pc = "lex" => ~LastIsEOF

\* C2: lexer totality: no call of next_token raises, every call that returns a
\* token other than EOF moves the scan position forward, so that EOF is returned
\* after at most Len(content) + 1 calls; the EOF token is the last and only EOF
\* token of the stream and is returned with the whole input consumed
C2_LexerTotality ==
    /\ LexerProgress
    /\ pc = "lex" => Len(lexlog) <= position
    /\ pc \in {"lex", "eof"}

\* a call has returned a token of several characters and EOF has been reached
C2_Witness ==
    /\ pc = "eof"
    /\ Len(lexlog) >= 3
    /\ \E i \in DOMAIN lexlog : lexlog[i].end > lexlog[i].called + 1

(***************************************************************************)
(* Properties of the parser                                                *)
(***************************************************************************)
id_foo == <<"f", "o", "o">>
id_bar == <<"b", "a", "r">>
id_baz == <<"b", "a", "z">>

\* kind and name of the Definitions emitted so far, in order
DeclNames ==
    [k \in DOMAIN definitions |-> <<definitions[k].def_type, definitions[k].name>>]

\* the attempt that emitted definitions[k]
AttemptOf(k) == CHOOSE a \in DOMAIN attempts : attempts[a].emitted = k

\* the source text between the name of definitions[k] and the token that ended
\* its signature, trimmed
RawSignature(k) ==
    Strip(Slice(content, lexlog[attempts[AttemptOf(k)].name_at].end,
                lexlog[attempts[AttemptOf(k)].end_at].start))

\* C3: signature text: the signature of every emitted Definition is the raw
\* source text from just after its name up to its terminator, trimmed; the
\* theorem `foo` scenario yields one Definition with signature
\* "(a : Nat) (b : Nat) : a + b = b + a" and the lemma `bar` scenario ": 1 = 1"
C3_SignatureText ==
    /\ \A k \in DOMAIN definitions : definitions[k].signature = RawSignature(k)
    /\ pc = "done" /\ content = TheoremFoo =>
          /\ DeclNames = << <<kw_theorem, id_foo>> >>
          /\ definitions[1].signature = SubSeq(TheoremFoo, 13, 47)
    /\ pc = "done" /\ content = LemmaBar =>
          /\ DeclNames = << <<kw_lemma, id_bar>> >>
          /\ definitions[1].signature = SubSeq(LemmaBar, 19, 25)

\* C4: variable form: `variable (x : Nat)` followed by a newline yields exactly
\* one Definition, of kind "variable", whose signature capture ended at the
\* newline token
C4_VariableForm ==
    pc = "done" /\ content = VariableX =>
        /\ Len(definitions) = 1
        /\ definitions[1].def_type = kw_variable
        /\ lexlog[attempts[AttemptOf(1)].end_at].tok.type = "NEWLINE"

\* one step of the signature scan
C5_Step ==
    /\ pc = "sig" /\ bracket_stack # <<>> /\ current_token.type # "EOF" =>
          /\ pc' = "sig"
          /\ signature_tokens' = Append(signature_tokens, current_token.value)
    /\ pc = "sig" /\ pc' # "sig" =>
          /\ \/ current_token.type = "EOF"
             \/ /\ bracket_stack = <<>>
                /\ current_token.type \in {"ASSIGN", "WHERE", "BY", "NEWLINE"}
          /\ definitions' =
                Append(definitions,
                       [defn EXCEPT !.signature = Strip(Cat(signature_tokens))])
    /\ pc' = "done" /\ content = NestedColon =>
          /\ DeclNames' = << <<kw_structure, <<"P">> >> >>
          /\ definitions'[1].signature =
                <<"(", "a", ":", "N", "a", "t", ")", ":", "T", "y", "p", "e">>
    /\ pc' = "done" /\ content = DefaultArg =>
          /\ DeclNames' = << <<kw_def, <<"f">> >> >>
          /\ definitions'[1].signature =
                <<"(", "a", ":", "=", "1", ")", ":", "T">>

\* C5: signature boundary: a token met while the bracket stack is non-empty
\* never ends the capture, whatever its kind; the capture ends only at a
\* terminator met with an empty stack (or at EOF), so a signature with a colon
\* or an assignment marker inside a bracket group holds the whole group and
\* runs up to the top-level boundary
C5_SignatureBoundary == [][C5_Step]_vars

\* the capture of DefaultArg's signature went past the nested `:=` and ended at
\* the top-level one
C5_Witness ==
    /\ pc = "done"
    /\ content = DefaultArg
    /\ Len(definitions) = 1
    /\ \E i \in DOMAIN sig_depths :
          sig_depths[i].type = "ASSIGN" /\ sig_depths[i].depth = 1
    /\ lexlog[attempts[1].end_at].tok.type = "ASSIGN"

\* C6: signature exclusion: no token appended to a signature at bracket depth 0
\* is an assignment marker, `where` or `by`, nor a newline when the kind is
\* "variable"; the signature's tokens are exactly the tokens strictly between
\* the name and the token that ended the capture, which is not among them
C6_SignatureExclusion ==
    /\ Len(sig_depths) = Len(signature_tokens)
    /\ \A i \in DOMAIN sig_depths :
          sig_depths[i].depth = 0 =>
             /\ sig_depths[i].type \notin {"ASSIGN", "WHERE", "BY"}
             /\ defn.def_type = kw_variable => sig_depths[i].type # "NEWLINE"
    /\ attempts # <<>> /\ attempts[Len(attempts)].emitted > 0 =>
          LET a == attempts[Len(attempts)]
          IN  /\ Len(signature_tokens) = a.end_at - a.name_at - 1
              /\ \A j \in DOMAIN signature_tokens :
                    signature_tokens[j] = lexlog[a.name_at + j].tok.value
              /\ definitions[a.emitted].signature = Strip(Cat(signature_tokens))

\* a signature with tokens appended at depth 0 and inside brackets was closed
\* at a top-level `by`, which is still the current token
C6_Witness ==
    /\ pc = "scan"
    /\ attempts # <<>>
    /\ attempts[Len(attempts)].emitted > 0
    /\ current_token.type = "BY"
    /\ \E i \in DOMAIN sig_depths : sig_depths[i].depth = 0
    /\ \E i \in DOMAIN sig_depths : sig_depths[i].depth > 0

\* the declarations written in a recovery tail
ExpectedDecls(t) ==
    CASE t = DefBaz     -> << <<kw_def, id_baz>> >>
      [] t = LemmaBar   -> << <<kw_lemma, id_bar>> >>
      [] t = TheoremFoo -> << <<kw_theorem, id_foo>> >>
      [] t = DefBaz \o <<"\n">> \o LemmaBar ->
            << <<kw_def, id_baz>>, <<kw_lemma, id_bar>> >>

\* C7: malformed-attempt recovery: the attempt started by `private private
\* theorem` with no identifier after the keyword emits nothing, and the
\* well-formed declarations that follow it, on the same line or on a later
\* one, are all emitted
C7_Recovery ==
    /\ pc = "done" /\ content = PrivatePrivateTheorem =>
          definitions = <<>> /\ Len(attempts) = 1
    /\ \A sep \in RecoverySeparators, t \in RecoveryTails :
          pc = "done" /\ content = PrivatePrivateTheorem \o sep \o t =>
             /\ attempts[1].emitted = 0
             /\ attempts[1].first = 1
             /\ DeclNames = ExpectedDecls(t)

\* the malformed attempt was abandoned and two later declarations were emitted
C7_Witness ==
    /\ pc = "done"
    /\ content = PrivatePrivateTheorem \o <<" ">> \o DefBaz \o <<"\n">> \o LemmaBar
    /\ attempts[1].emitted = 0
    /\ Len(definitions) = 2

\* C8: no error state: no step of constructing the parser or of parse raises,
\* whatever the input; parse returns a list of Definitions
C8_NoError ==
    /\ ~raised
    /\ pc \in {"scan", "kind", "name", "sig", "done"}
    /\ Len(definitions) <= Len(attempts)

\* parse returned on an input with a closing bracket that matches nothing and
\* a string that is never closed
C8_Witness ==
    /\ pc = "done"
    /\ ~raised
    /\ \E i \in DOMAIN sig_depths :
          sig_depths[i].type = "RPAREN" /\ sig_depths[i].depth = 0
    /\ \E i \in DOMAIN lexlog :
          /\ lexlog[i].tok.type = "STRING"
          /\ Len(lexlog[i].tok.value) = 1

RECURSIVE MatchingClose(_, _, _)
\* where a block comment ends whose opening marker has just been read: after
\* the "-/" that brings the nesting depth to 0, or at the end of the input
MatchingClose(c, i, depth) ==
    IF depth = 0 THEN i
    ELSE IF i >= Len(c) THEN Len(c)
    ELSE IF i + 1 < Len(c) /\ c[i + 1] = "-" /\ c[i + 2] = "/"
    THEN MatchingClose(c, i + 2, depth - 1)
    ELSE IF i + 1 < Len(c) /\ c[i + 1] = "/" /\ c[i + 2] = "-"
    THEN MatchingClose(c, i + 2, depth + 1)
    ELSE MatchingClose(c, i + 1, depth)

IsComment(e) == e.tok.type \in {"BLOCK_COMMENT", "DOC_COMMENT"}

\* C9: comment nesting: a comment token opened by "/-" is the source text from
\* that marker through the "-/" that brings the nesting depth back to 0, inner
\* pairs not closing it, or through the end of the input when there is none
C9_CommentNesting ==
    \A i \in DOMAIN lexlog :
        IsComment(lexlog[i]) =>
            /\ lexlog[i].end = MatchingClose(content, lexlog[i].start + 2, 1)
            /\ lexlog[i].tok.value = Slice(content, lexlog[i].start, lexlog[i].end)

\* C10: declarations after comments: the nested block comment of the scenario
\* is one token and `def baz` after it is the one Definition emitted; no
\* declaration attempt starts at a token that lies in a plain block comment,
\* and a declaration written in one is not emitted
C10_AfterComments ==
    /\ pc = "done" /\ content = NestedCommentBaz =>
          /\ lexlog[1].tok.type = "BLOCK_COMMENT"
          /\ lexlog[1].tok.value = SubSeq(NestedCommentBaz, 1, 35)
          /\ DeclNames = << <<kw_def, id_baz>> >>
    /\ pc = "done" /\ content = CommentedDecl =>
          DeclNames = << <<kw_def, id_baz>> >>
    /\ \A a \in DOMAIN attempts, i \in DOMAIN lexlog :
          lexlog[i].tok.type = "BLOCK_COMMENT" =>
             \/ lexlog[attempts[a].first].start < lexlog[i].start
             \/ lexlog[attempts[a].first].start >= lexlog[i].end

\* `def baz` was emitted after the nested comment of the scenario
C10_Witness ==
    /\ pc = "done"
    /\ content = NestedCommentBaz
    /\ Len(lexlog[1].tok.value) = 35
    /\ Len(definitions) = 1

\* the family of a bracket token type
BracketFamily(type) ==
    CASE type \in {"LPAREN", "RPAREN"}     -> "paren"
      [] type \in {"LBRACKET", "RBRACKET"} -> "bracket"
      [] type \in {"LBRACE", "RBRACE"}     -> "brace"
      [] OTHER                             -> "none"

IsCloser(type) == type \in {"RPAREN", "RBRACKET", "RBRACE"}

\* the closing bracket `type` matches the top of the stack
MatchesTop(type, stack) ==
    /\ stack # <<>>
    /\ BracketFamily(stack[Len(stack)]) = BracketFamily(type)

C11_Step ==
    /\ pc = "sig" /\ pc' # "scan" =>
          LET t == current_token.type
          IN  /\ ~raised'
              /\ pc' = "sig"
              /\ signature_tokens' = Append(signature_tokens, current_token.value)
              /\ IsCloser(t) /\ ~MatchesTop(t, bracket_stack) =>
                    bracket_stack' = bracket_stack
              /\ IsCloser(t) /\ MatchesTop(t, bracket_stack) =>
                    bracket_stack' = SubSeq(bracket_stack, 1, Len(bracket_stack) - 1)
              /\ Len(bracket_stack') < Len(bracket_stack) =>
                    IsCloser(t) /\ MatchesTop(t, bracket_stack)
    /\ ~(pc = "sig" /\ pc' # "scan") => bracket_stack' \in {bracket_stack, <<>>}

\* C11: bracket-depth robustness: a closing bracket met during signature capture
\* that does not match the top of the bracket stack, any closing bracket met
\* with an empty stack included, leaves the stack unchanged, raises nothing and
\* its text is still appended to the signature; the stack is popped only by a
\* closing bracket of the same family as its top
C11_BracketRobustness == [][C11_Step]_vars

\* in MixedBrackets a `)` was appended with the stack empty, a `)` and a `]`
\* were appended at depth 3 leaving the depth at 3, and the three closers that
\* match brought the depth back to 0, where `:=` ended the signature
C11_Witness ==
    /\ pc = "done"
    /\ content = MixedBrackets
    /\ Len(definitions) = 1
    /\ Len(sig_depths) = 9
    /\ sig_depths[1] = [type |-> "RPAREN", depth |-> 0]
    /\ sig_depths[5] = [type |-> "RPAREN", depth |-> 3]
    /\ sig_depths[6] = [type |-> "RBRACKET", depth |-> 3]
    /\ sig_depths[7] = [type |-> "RBRACE", depth |-> 3]
    /\ sig_depths[9] = [type |-> "RPAREN", depth |-> 1]
    /\ bracket_stack = <<>>

RECURSIVE BackWhile(_, _, _)
\* the least index r >= lo such that the tokens r .. i - 1 all have a type in
\* `types`
BackWhile(i, lo, types) ==
    IF i > lo /\ lexlog[i - 1].tok.type \in types
    THEN BackWhile(i - 1, lo, types)
    ELSE i

\* the texts of the tokens r .. m - 1 that have type `type`, in source order
ValuesOfType(r, m, type) ==
    LET toks == [i \in 1..(m - r) |-> lexlog[r + i - 1].tok]
        sel  == SelectSeq(toks, LAMBDA t : t.type = type)
    IN  [i \in DOMAIN sel |-> sel[i].value]

\* the index of the declaration keyword of definitions[k]
KeywordAt(k) == attempts[AttemptOf(k)].name_at - 1

\* the index of the token that ended the signature of the Definition emitted
\* before definitions[k], or 1
PreviousEnd(k) == IF k = 1 THEN 1 ELSE attempts[AttemptOf(k - 1)].end_at

\* the first of the modifiers written directly before the keyword of
\* definitions[k], or the keyword
ModifiersStart(k) == BackWhile(KeywordAt(k), PreviousEnd(k), ModifierTypes)

\* the start of the run of attribute spans and newlines that ends where the
\* modifiers or the keyword of definitions[k] begin
AttributesStart(k) ==
    BackWhile(ModifiersStart(k), PreviousEnd(k), {"ATTRIBUTE", "NEWLINE"})

attr_simp == <<"@", "[", "s", "i", "m", "p", "]">>

\* C12: attributes: the attributes of every emitted Definition are the texts of
\* all attribute spans written before its modifiers and keyword and separated
\* from them and from each other by newlines only, in source order; for
\* `@[simp] lemma bar : 1 = 1 := rfl` exactly one Definition is emitted, with
\* attributes ["@[simp]"], kind "lemma" and name "bar"
C12_Attributes ==
    /\ pc = "done" /\ content = LemmaBar =>
          /\ Len(definitions) = 1
          /\ definitions[1].attributes = <<attr_simp>>
          /\ definitions[1].def_type = kw_lemma
          /\ definitions[1].name = id_bar
    /\ \A k \in DOMAIN definitions :
          definitions[k].attributes =
             ValuesOfType(AttributesStart(k), ModifiersStart(k), "ATTRIBUTE")

\* two attributes on two lines in front of the theorem: both were appended, in
\* the order written
C12_Witness ==
    /\ pc = "done"
    /\ Len(definitions) = 1
    /\ definitions[1].attributes = << <<"@", "[", "a", "]">>, <<"@", "[", "b", "]">> >>
    /\ lexlog[2].tok.type = "NEWLINE"

\* where the declaration keyword of definitions[k] starts in the input
KeywordStart(k) == lexlog[KeywordAt(k)].start

C13_Step ==
    /\ Len(definitions') >= Len(definitions)
    /\ \A k \in DOMAIN definitions : definitions'[k] = definitions[k]
    /\ \A k \in DOMAIN definitions' :
          /\ lexlog'[KeywordAt(k)'].tok.type \in DeclTypes
          /\ lexlog'[KeywordAt(k)'].tok.value = definitions'[k].def_type
          /\ k > 1 =>
                /\ KeywordStart(k - 1)' < KeywordStart(k)'
                /\ definitions'[k - 1].line <= definitions'[k].line

\* C13: output order: the Definitions are listed in the order in which their
\* declaration keywords appear in the input, the `line` values of consecutive
\* Definitions are non-decreasing, and no step inserts a Definition before one
\* emitted earlier
C13_OutputOrder == [][C13_Step]_vars

\* two Definitions were returned, the second from a later line than the first
C13_Witness ==
    /\ pc = "done"
    /\ Len(definitions) = 2
    /\ definitions[1].line < definitions[2].line
    /\ KeywordStart(1) < KeywordStart(2)

\* the texts of the declaration keywords
DeclKeywordTexts ==
    {kw_lemma, kw_theorem, kw_def, kw_class, kw_structure, kw_inductive, kw_variable}

\* the attempts that reached the name stage with an identifier
NamedAttempts == {a \in DOMAIN attempts : attempts[a].name_at > 0}

\* the attempts that are over: all but one whose call has not yet returned
FinishedAttempts ==
    {a \in DOMAIN attempts : a < Len(attempts) \/ pc \in {"scan", "done"}}

C14_Step ==
    \* the list only grows by appending, one Definition at a time
    /\ Len(definitions') \in {Len(definitions), Len(definitions) + 1}
    /\ \A k \in DOMAIN definitions : definitions'[k] = definitions[k]
    \* the Definition is appended when the attempt that captured a name returns
    /\ Len(definitions') = Len(definitions) + 1 <=> pc = "sig" /\ pc' = "scan"
    \* one Definition per finished attempt that captured a name, none for the others
    /\ Len(definitions') = Cardinality(NamedAttempts' \cap FinishedAttempts')
    /\ \A a \in FinishedAttempts' :
          IF a \in NamedAttempts'
          THEN /\ attempts'[a].emitted \in DOMAIN definitions'
               /\ \A b \in FinishedAttempts' :
                     attempts'[b].emitted = attempts'[a].emitted => b = a
          ELSE attempts'[a].emitted = 0
    \* kind and name are the texts of the keyword and of the identifier after it
    /\ \A k \in DOMAIN definitions' :
          LET a == attempts'[AttemptOf(k)']
          IN  /\ definitions'[k].def_type \in DeclKeywordTexts
              /\ definitions'[k].def_type = lexlog'[a.name_at - 1].tok.value
              /\ lexlog'[a.name_at].tok.type = "IDENTIFIER"
              /\ definitions'[k].name = lexlog'[a.name_at].tok.value

\* C14: one record per successful attempt, immutable afterwards: an attempt
\* appends exactly one Definition when it reaches the name stage with an
\* identifier and none otherwise; kind is the text of a declaration keyword and
\* name the text of the IDENTIFIER token directly after that keyword; the list
\* only grows by appending and no appended Definition is changed afterwards
C14_OneRecordPerAttempt == [][C14_Step]_vars

\* three attempts are over: one abandoned, two that captured a name and emitted
\* one Definition each
C14_Witness ==
    /\ pc = "done"
    /\ Len(attempts) = 3
    /\ Cardinality(NamedAttempts) = 2
    /\ Len(definitions) = 2
    /\ \E a \in DOMAIN attempts : attempts[a].name_at = 0

\* the number of newline characters among the first n characters of c
NewlinesBefore(c, n) == Cardinality({i \in 1..n : c[i] = "\n"})

\* the number of characters of c up to and including the last newline among
\* its first n characters, 0 when there is none
LineStart(c, n) ==
    LET nls == {i \in 1..n : c[i] = "\n"}
    IN  IF nls = {} THEN 0 ELSE CHOOSE i \in nls : \A j \in nls : j <= i

\* C15: token positions: every token returned by next_token records the line
\* and column of its first character: line is 1 + the number of newlines before
\* it and column is 1 + the number of characters between the most recent
\* newline, or the start of the input, and it; multi-line tokens and skipped
\* blanks before the token do not disturb this
C15_TokenPositions ==
    \A i \in DOMAIN lexlog :
        /\ lexlog[i].tok.line = 1 + NewlinesBefore(content, lexlog[i].start)
        /\ lexlog[i].tok.column = 1 + lexlog[i].start - LineStart(content, lexlog[i].start)

\* the tokens of MultiLineTokens: the attribute span after the two-line string
\* starts at line 2, column 4, the block comment at line 4, column 2 and the
\* identifier after blanks and a tab at line 5, column 7
C15_Witness ==
    /\ pc = "eof"
    /\ content = MultiLineTokens
    /\ Len(lexlog) = 6
    /\ lexlog[2].tok.type = "ATTRIBUTE"
    /\ lexlog[2].tok.line = 2 /\ lexlog[2].tok.column = 4
    /\ lexlog[4].tok.type = "BLOCK_COMMENT"
    /\ lexlog[4].tok.line = 4 /\ lexlog[4].tok.column = 2
    /\ lexlog[5].tok.line = 5 /\ lexlog[5].tok.column = 7
    /\ lexlog[5].called < lexlog[5].start

\* the kinds of the Definitions emitted so far
EmittedKinds == {definitions[k].def_type : k \in DOMAIN definitions}

\* C16 as claimed: exactly five keywords are declaration keywords, so the input
\* that uses each of the twelve keywords as the head of a declaration yields
\* Definitions of exactly five kinds
C16_FiveDeclarationKeywords ==
    pc = "done" /\ content = AllKeywords => Cardinality(EmittedKinds) = 5

\* C16, amended: exactly seven keywords are declaration keywords: lemma,
\* theorem, def, class, structure, inductive and variable are the texts the
\* lexer tags as declaration kinds, the kinds the parser accepts at the kind
\* stage and the kinds of the Definitions emitted
C16_SevenDeclarationKeywords ==
    /\ Cardinality(DeclKeywordTexts) = 7
    /\ \A i \in DOMAIN lexlog :
          lexlog[i].tok.type \in DeclTypes <=> lexlog[i].tok.value \in DeclKeywordTexts
    /\ pc \in {"name", "sig"} => defn.def_type \in DeclKeywordTexts
    /\ EmittedKinds \subseteq DeclKeywordTexts
    /\ pc = "done" /\ content = AllKeywords =>
          /\ EmittedKinds = DeclKeywordTexts
          /\ [k \in DOMAIN definitions |-> definitions[k].def_type] =
                SubSeq(KeywordList, 1, 7)

\* each of the seven declaration keywords emitted its Definition and the five
\* other keywords emitted none
C16_Witness ==
    /\ pc = "done"
    /\ content = AllKeywords
    /\ Len(definitions) = 7
    /\ Cardinality(EmittedKinds) = 7

\* the current token is a terminator met with an empty bracket stack
AtTerminator ==
    /\ bracket_stack = <<>>
    /\ \/ current_token.type \in {"ASSIGN", "WHERE", "BY"}
       \/ defn.def_type = kw_variable /\ current_token.type = "NEWLINE"

\* the types of the tokens appended to the signature being captured
AbsorbedTypes == {sig_depths[i].type : i \in DOMAIN sig_depths}

C17_Step ==
    \* after the name every token but a depth-0 terminator and EOF is appended
    /\ pc = "sig" /\ ~AtTerminator /\ current_token.type # "EOF" =>
          /\ pc' = "sig"
          /\ signature_tokens' = Append(signature_tokens, current_token.value)
          /\ definitions' = definitions
          /\ attempts' = attempts
    /\ pc = "sig" /\ (AtTerminator \/ current_token.type = "EOF") =>
          /\ pc' = "scan"
          /\ Len(definitions') = Len(definitions) + 1
    \* no declaration attempt starts at a token taken into a signature
    /\ \A a, e \in DOMAIN attempts' :
          attempts'[e].name_at > 0 /\ attempts'[e].end_at > 0 =>
             ~(attempts'[e].name_at < attempts'[a].first
                  /\ attempts'[a].first < attempts'[e].end_at)
    \* the declarations absorbed by the two literal inputs emit nothing
    /\ pc' = "done" /\ content = Unterminated =>
          /\ DeclNames' = << <<kw_def, <<"a">> >> >>
          /\ {"NEWLINE", "DOC_COMMENT", "ATTRIBUTE", "PRIVATE", "THEOREM"}
                \subseteq AbsorbedTypes'
          /\ lexlog'[attempts'[1].end_at].tok.type = "ASSIGN"
    /\ pc' = "done" /\ content = Unclosed =>
          /\ DeclNames' = << <<kw_def, <<"a">> >> >>
          /\ {"ASSIGN", "THEOREM", "LEMMA"} \subseteq AbsorbedTypes'
          /\ lexlog'[attempts'[1].end_at].tok.type = "EOF"

\* C17: signature capture ends only at a depth-0 terminator or at the end of
\* the token stream: once a name is captured every following token, declaration
\* keywords, modifiers, attribute spans and doc comments included, is appended
\* to the signature until `:=`, `where` or `by` (or a newline for `variable`) is
\* met with an empty bracket stack, or EOF; a declaration without a terminator
\* or with an opening bracket that is never closed absorbs the declarations
\* after it, and those emit no Definition
C17_Absorption == [][C17_Step]_vars

\* the unclosed bracket of Unclosed kept the stack non-empty to the end of the
\* input: two `:=` and two declaration keywords were appended at depth 1 and
\* one Definition was returned
C17_Witness ==
    /\ pc = "done"
    /\ content = Unclosed
    /\ Len(definitions) = 1
    /\ Len(attempts) = 1
    /\ bracket_stack = <<"LPAREN">>
    /\ \E i \in DOMAIN sig_depths :
          sig_depths[i].type = "THEOREM" /\ sig_depths[i].depth = 1
    /\ \E i \in DOMAIN sig_depths :
          sig_depths[i].type = "LEMMA" /\ sig_depths[i].depth = 1

\* the texts of the tokens r .. m - 1 whose type is in `types`, in source order
ValuesOfTypes(r, m, types) ==
    LET toks == [i \in 1..(m - r) |-> lexlog[r + i - 1].tok]
        sel  == SelectSeq(toks, LAMBDA t : t.type \in types)
    IN  [i \in DOMAIN sel |-> sel[i].value]

\* the attempts that were abandoned
Abandoned == {a \in DOMAIN attempts : attempts[a].emitted = 0 /\ attempts[a].end_at > 0}

\* the last attempt was abandoned and the token that failed its test is the
\* current token of the scanning loop
JustAbandoned ==
    /\ pc = "scan"
    /\ attempts # <<>>
    /\ Len(attempts) \in Abandoned
    /\ attempts[Len(attempts)].end_at = Len(lexlog) - 1

\* every field of definitions[k] comes from the tokens of its own attempt
FromOwnAttempt(k) ==
    LET a == attempts[AttemptOf(k)]
    IN  /\ definitions[k].doc_comment =
              IF lexlog[a.first].tok.type = "DOC_COMMENT"
              THEN lexlog[a.first].tok.value ELSE <<>>
        /\ definitions[k].attributes = ValuesOfTypes(a.first, a.name_at, {"ATTRIBUTE"})
        /\ definitions[k].modifiers = ValuesOfTypes(a.first, a.name_at, ModifierTypes)
        /\ definitions[k].def_type = lexlog[a.name_at - 1].tok.value

C18_Step ==
    \* the attempt is abandoned exactly when the test of its stage fails
    /\ pc = "kind" =>
          (pc' = "scan" <=> current_token.type \notin DeclTypes)
    /\ pc = "name" =>
          (pc' = "scan" <=> current_token.type # "IDENTIFIER")
    \* nothing is emitted and the token that failed the test is not consumed
    /\ pc \in {"kind", "name"} /\ pc' = "scan" =>
          /\ definitions' = definitions
          /\ current_token' = current_token
          /\ peek_token' = peek_token
          /\ lexlog' = lexlog
          /\ position' = position
          /\ defn' = NoDefinition
          /\ JustAbandoned'
    \* the scanning loop examines that token next: it starts a fresh attempt
    \* when it can start a declaration and is passed over otherwise
    /\ JustAbandoned /\ current_token.type # "EOF" =>
          IF current_token.type \in StartTypes
          THEN /\ pc' = "kind"
               /\ Len(attempts') = Len(attempts) + 1
               /\ attempts'[Len(attempts')].first = attempts[Len(attempts)].end_at
          ELSE /\ pc' = "scan"
               /\ attempts' = attempts
               /\ Len(lexlog') = Len(lexlog) + 1
    \* what an abandoned attempt consumed lies before every later attempt, and
    \* a Definition takes its fields from the tokens of its own attempt only
    /\ \A a \in Abandoned', b \in DOMAIN attempts' :
          a < b =>
             /\ attempts'[a].first < attempts'[a].end_at
             /\ attempts'[a].end_at <= attempts'[b].first
    /\ \A k \in DOMAIN definitions' : FromOwnAttempt(k)'

\* C18: abandonment resumes at the offending token and discards what was
\* consumed: an attempt abandoned at the kind stage (the current token is not a
\* declaration keyword) or at the name stage (it is not an identifier) emits no
\* Definition, the token that failed the test is not consumed and is the next
\* token the scanning loop examines, so that it can start a fresh attempt, and
\* the doc comment, attributes, modifiers and keyword consumed by the abandoned
\* attempt appear in no later Definition
C18_Abandonment == [][C18_Step]_vars

\* an attempt that had consumed a doc comment and `def` was abandoned at the
\* keyword `theorem`, which started the next attempt; the theorem was emitted
\* without the doc comment
C18_Witness ==
    /\ pc = "done"
    /\ Len(attempts) = 2
    /\ attempts[1].emitted = 0
    /\ lexlog[attempts[1].first].tok.type = "DOC_COMMENT"
    /\ lexlog[attempts[1].end_at - 1].tok.type = "DEF"
    /\ attempts[2].first = attempts[1].end_at
    /\ Len(definitions) = 1
    /\ definitions[1].doc_comment = <<>>
    /\ definitions[1].def_type = kw_theorem

\* the index of current_token among the tokens the lexer has returned
Cursor == Len(lexlog) - 1

\* the stages that are left without consuming a token rank below the scanning
\* loop, the others above it
StageRank ==
    CASE pc = "done" -> 0
      [] pc = "scan" -> 2
      [] pc = "kind" -> IF current_token.type \in DeclTypes THEN 1 ELSE 3
      [] pc = "name" -> IF current_token.type = "IDENTIFIER" THEN 1 ELSE 3
      [] OTHER       -> 3

\* a measure of the work parse has left: the tokens not yet consumed, the
\* second EOF the cursor looks ahead to included, then the stage
Variant == 4 * (Len(content) + 2 - Cursor) + StageRank

C19_Step ==
    \* every step brings parse closer to its return
    /\ Variant' < Variant
    /\ Variant' >= 0
    \* the cursor never moves backwards and never passes an EOF token
    /\ Cursor' >= Cursor
    /\ position' >= position
    /\ SubSeq(lexlog', 1, Len(lexlog)) = lexlog
    /\ \A i \in 1..(Cursor' - 1) : lexlog'[i].tok.type # "EOF"
    \* an iteration of the main loop that calls nothing consumes one token
    /\ pc = "scan" /\ pc' = "scan" => Cursor' = Cursor + 1
    \* every call of parse_definition that returned consumed at least one token
    /\ \A a \in DOMAIN attempts' :
          attempts'[a].end_at > 0 => attempts'[a].first < attempts'[a].end_at
    /\ pc' = "done" => current_token'.type = "EOF" /\ position' = Len(content)

\* C19: parser termination and progress: parse terminates on every input: each
\* step lowers a measure that is never negative; every iteration of the main
\* loop and every call of parse_definition, whether it emits a Definition or
\* returns None, consumes at least one token, the token cursor never moves
\* backwards, and the inner skip loops stop at the EOF token
C19_ParserProgress == [][C19_Step]_vars

\* parse returned at EOF after skipping newlines, one abandoned attempt and
\* two attempts that emitted
C19_Witness ==
    /\ pc = "done"
    /\ current_token.type = "EOF"
    /\ Len(attempts) = 3
    /\ Abandoned = {1}
    /\ lexlog[attempts[1].end_at].tok.type = "NEWLINE"
    /\ Cursor > 10

C20_Step ==
    /\ pc = "sig" /\ current_token.type = "NEWLINE" =>
          IF defn.def_type = kw_variable /\ bracket_stack = <<>>
          THEN /\ pc' = "scan"
               /\ signature_tokens' = signature_tokens
               /\ Len(definitions') = Len(definitions) + 1
               /\ current_token' = current_token
          ELSE /\ pc' = "sig"
               /\ signature_tokens' = Append(signature_tokens, <<"\n">>)
               /\ definitions' = definitions
               /\ current_token' = peek_token
    /\ \A i \in 1..7 :
          pc' = "done" /\ content = KeywordList[i] \o NewlineTail =>
             /\ DeclNames' = << <<KeywordList[i], <<"n">> >> >>
             /\ definitions'[1].signature =
                   IF KeywordList[i] = kw_variable
                   THEN <<"(", "a", "\n", "b", ")", "c">>
                   ELSE <<"(", "a", "\n", "b", ")", "c", "\n", "d">>

\* C20: newline as terminator only for `variable`: a newline met at bracket
\* depth 0 ends signature capture if and only if the kind is "variable"; for
\* every other kind, and for `variable` while the bracket stack is non-empty,
\* the newline's text is appended and capture continues on the following lines
C20_NewlineTerminator == [][C20_Step]_vars

\* the signature of `variable n (a\nb) c\nd := e` took the newline inside the
\* brackets and ended at the one after `c`
C20_Witness ==
    /\ pc = "done"
    /\ content = kw_variable \o NewlineTail
    /\ Len(definitions) = 1
    /\ definitions[1].signature = <<"(", "a", "\n", "b", ")", "c">>
    /\ lexlog[attempts[1].end_at].tok.type = "NEWLINE"
    /\ Len(sig_depths) = 6
    /\ sig_depths[3] = [type |-> "NEWLINE", depth |-> 1]

\* the token kinds whose text may hold blanks
SpanTypes == {"LINE_COMMENT", "BLOCK_COMMENT", "DOC_COMMENT", "STRING", "ATTRIBUTE"}

\* the blanks skipped before each token and the token's text, in order, joined
Interleaved ==
    Cat([i \in DOMAIN lexlog |->
            Slice(content, lexlog[i].called, lexlog[i].start) \o lexlog[i].tok.value])

\* C21: weak losslessness: the text of every token other than EOF is the input
\* between the position where the token starts and the position after
\* next_token returns; the input is the token texts in order, interleaved with
\* the runs of spaces and tabs skipped right before each token; spaces and tabs
\* outside comments, strings and attribute spans are in no token, and no token
\* of kind WHITESPACE is produced
C21_WeakLossless ==
    /\ \A i \in DOMAIN lexlog :
          LET e == lexlog[i]
          IN  /\ e.tok.type # "WHITESPACE"
              /\ e.tok.type # "EOF" =>
                    /\ e.start < e.end
                    /\ e.tok.value = Slice(content, e.start, e.end)
              /\ e.called = IF i = 1 THEN 0 ELSE lexlog[i - 1].end
              /\ \A j \in (e.called + 1)..e.start : content[j] \in {" ", "\t"}
              /\ e.start < Len(content) => content[e.start + 1] \notin {" ", "\t"}
              /\ e.tok.type \notin SpanTypes =>
                    \A j \in DOMAIN e.tok.value : e.tok.value[j] \notin {" ", "\t"}
    /\ pc = "eof" => Interleaved = content

\* the theorem `foo` scenario was lexed to its end: the token texts alone do
\* not give the input back, with the skipped blanks they do
C21_Witness ==
    /\ pc = "eof"
    /\ content = TheoremFoo
    /\ TokenTexts # content
    /\ Interleaved = content
    /\ \E i \in DOMAIN lexlog : lexlog[i].called < lexlog[i].start

\* the input position p (0-based) lies in a comment, string or attribute token
InSpanToken(p) ==
    \E i \in DOMAIN lexlog :
        /\ lexlog[i].tok.type \in SpanTypes
        /\ lexlog[i].start <= p /\ p < lexlog[i].end

\* how far the lexer has read
Lexed == IF lexlog = <<>> THEN 0 ELSE lexlog[Len(lexlog)].end

\* C22: assignment marker atomicity: a `:` immediately followed by `=` outside
\* a comment, string or attribute span is lexed as one ASSIGN token with text
\* `:=`, never as a COLON token followed by an OTHER `=` token; a `:` not
\* immediately followed by `=`, `: =` included, is a single COLON token, and a
\* COLON token does not end a signature
C22_AssignAtomicity ==
    \* every colon outside a span starts a token, ASSIGN or COLON by what follows
    /\ \A p \in 0..(Lexed - 1) :
          content[p + 1] = ":" /\ ~InSpanToken(p) =>
             \E i \in DOMAIN lexlog :
                /\ lexlog[i].start = p
                /\ IF p + 1 < Len(content) /\ content[p + 2] = "="
                   THEN /\ lexlog[i].tok.type = "ASSIGN"
                        /\ lexlog[i].tok.value = <<":", "=">>
                        /\ lexlog[i].end = p + 2
                   ELSE /\ lexlog[i].tok.type = "COLON"
                        /\ lexlog[i].tok.value = <<":">>
                        /\ lexlog[i].end = p + 1
    \* an OTHER `=` token never starts where a COLON token ends
    /\ \A i \in DOMAIN lexlog :
          i > 1 /\ lexlog[i].tok.type = "OTHER" /\ lexlog[i].tok.value = <<"=">>
                /\ lexlog[i - 1].tok.type = "COLON" =>
             lexlog[i - 1].end < lexlog[i].start
    \* no signature ends at a COLON token
    /\ \A a \in DOMAIN attempts :
          attempts[a].emitted > 0 => lexlog[attempts[a].end_at].tok.type # "COLON"
    /\ pc = "done" /\ content = SpacedAssign =>
          /\ DeclNames = << <<kw_def, <<"f">> >> >>
          /\ definitions[1].signature = <<":", "=", "x">>
          /\ lexlog[attempts[1].end_at].tok.type = "ASSIGN"

\* in SpacedAssign the colon and the equals sign apart were appended to the
\* signature as COLON and OTHER, and the `:=` after them ended it
C22_Witness ==
    /\ pc = "done"
    /\ content = SpacedAssign
    /\ Len(definitions) = 1
    /\ sig_depths = << [type |-> "COLON", depth |-> 0],
                       [type |-> "OTHER", depth |-> 0],
                       [type |-> "IDENTIFIER", depth |-> 0] >>
    /\ lexlog[attempts[1].end_at].tok.value = <<":", "=">>

\* the kinds of the twelve keywords, in the order of KeywordList
KeywordKinds ==
    <<"LEMMA", "THEOREM", "DEF", "CLASS", "STRUCTURE", "INDUCTIVE", "VARIABLE",
      "WHERE", "BY", "PRIVATE", "PROTECTED", "NONCOMPUTABLE">>

\* the kinds of the tokens read by read_identifier
WordTypes == {KeywordKinds[j] : j \in DOMAIN KeywordKinds} \cup {"IDENTIFIER"}

\* the characters an identifier starts with and goes on with
IdentifierStart ==
    Lower \cup Upper \cup {"_"} \cup GreekLetters \cup SubscriptLetters
IdentifierChars ==
    IdentifierStart \cup Digits \cup {"'"} \cup SubscriptDigits

\* C23: keyword recognition by exact match of the maximal run: an identifier
\* token is the maximal run of identifier characters from a letter, underscore
\* or listed code point on; it has a keyword kind if and only if the whole run
\* is an entry of the keyword table, so that a run which contains or extends a
\* keyword (`bytes`, `def'`, `where_x`) is a plain IDENTIFIER, starts no
\* declaration and ends no signature
C23_KeywordExactMatch ==
    /\ \A i \in DOMAIN lexlog :
          LET e == lexlog[i]
          IN  /\ e.tok.type \in WordTypes <=>
                    e.start < Len(content) /\ content[e.start + 1] \in IdentifierStart
              /\ e.tok.type \in WordTypes =>
                    /\ \A j \in DOMAIN e.tok.value : e.tok.value[j] \in IdentifierChars
                    /\ e.tok.value = Slice(content, e.start, e.end)
                    /\ e.end < Len(content) => content[e.end + 1] \notin IdentifierChars
                    /\ \A j \in DOMAIN KeywordList :
                          e.tok.type = KeywordKinds[j] <=> e.tok.value = KeywordList[j]
    /\ \A a \in DOMAIN attempts :
          /\ lexlog[attempts[a].first].tok.type # "IDENTIFIER"
          /\ attempts[a].emitted > 0 =>
                lexlog[attempts[a].end_at].tok.type # "IDENTIFIER"
    /\ pc = "done" /\ content = NearKeywords =>
          /\ DeclNames = << <<kw_def, <<"f">> >> >>
          /\ definitions[1].signature =
                <<"b", "y", "t", "e", "s", "d", "e", "f", "'", "w", "h", "e",
                  "r", "e", "_", "x", "α", "b", "y", "x", "₁">>

\* in NearKeywords `bytes` at the top level started nothing, and `bytes`,
\* `def'`, `where_x`, `αby` and `x₁` were appended to the signature of `f` as
\* identifiers
C23_Witness ==
    /\ pc = "done"
    /\ content = NearKeywords
    /\ Len(attempts) = 1
    /\ lexlog[1].tok.type = "IDENTIFIER"
    /\ Len(sig_depths) = 5
    /\ \A i \in DOMAIN sig_depths : sig_depths[i].type = "IDENTIFIER"

\* the bracket depth after the i-th token of the signature being captured
DepthAfter(i) ==
    IF i < Len(sig_depths) THEN sig_depths[i + 1].depth ELSE Len(bracket_stack)

\* C24: terminators hidden inside single tokens do not end a signature: `:=`,
\* `where`, `by` and newlines inside a line comment, a block or doc comment, a
\* string or an attribute span met during signature capture are part of that one
\* token, which is appended as it is, never ends the capture and leaves the
\* bracket stack as it was, whatever brackets it holds
C24_HiddenTerminators ==
    /\ \A i \in DOMAIN sig_depths :
          sig_depths[i].type \in SpanTypes =>
             /\ DepthAfter(i) = sig_depths[i].depth
             /\ signature_tokens[i] =
                   lexlog[attempts[Len(attempts)].name_at + i].tok.value
    /\ \A a \in DOMAIN attempts :
          attempts[a].emitted > 0 =>
             lexlog[attempts[a].end_at].tok.type \notin SpanTypes
    /\ pc = "done" /\ content = HiddenTerminators =>
          /\ DeclNames = << <<kw_def, <<"f">> >> >>
          /\ lexlog[attempts[1].end_at].start = 54
          /\ definitions[1].signature =
                <<"-", "-", " ", ":", "=", " ", "(", "\n", "\"", "a", " ",
                  ":", "=", " ", "[", " ", "b", "\"", "/", "-", " ", "b",
                  "y", " ", "{", " ", "-", "/", "@", "[", "s", " ", "w",
                  "h", "e", "r", "e", " ", "(", "]", ":", "T">>
    /\ pc = "done" /\ content = HiddenNewlines =>
          /\ DeclNames = << <<kw_variable, <<"v">> >> >>
          /\ lexlog[attempts[1].end_at].tok.type = "NEWLINE"
          /\ lexlog[attempts[1].end_at].start = 35
          /\ definitions[1].signature =
                <<"/", "-", " ", "a", "\n", "b", " ", "-", "/", "\"", "c",
                  "\n", "d", "\"", "@", "[", "e", "\n", "f", "]", "x">>

\* the signature of HiddenTerminators took a line comment, a string, a block
\* comment and an attribute span that hold `:=`, `by`, `where` and opening
\* brackets, all at depth 0, and ended at the `:=` after them
C24_Witness ==
    /\ pc = "done"
    /\ content = HiddenTerminators
    /\ Len(definitions) = 1
    /\ [i \in DOMAIN sig_depths |-> sig_depths[i].type] =
          <<"LINE_COMMENT", "NEWLINE", "STRING", "BLOCK_COMMENT", "ATTRIBUTE",
            "COLON", "IDENTIFIER">>
    /\ \A i \in DOMAIN sig_depths : sig_depths[i].depth = 0
    /\ bracket_stack = <<>>

\* the attempt b consumed a doc comment or none, then attributes and the
\* newlines after them, then modifiers up to token j - 1, and token j is a
\* newline
ModifiersThenNewline(b, j) ==
    /\ attempts[b].first < j
    /\ lexlog[j].tok.type = "NEWLINE"
    /\ \E m \in attempts[b].first..(j - 1) :
          /\ \A i \in m..(j - 1) : lexlog[i].tok.type \in ModifierTypes
          /\ \A i \in attempts[b].first..(m - 1) :
                \/ lexlog[i].tok.type \in {"ATTRIBUTE", "NEWLINE"}
                \/ lexlog[i].tok.type = "DOC_COMMENT" /\ i = attempts[b].first

\* C25: modifiers are same-line: the modifiers of a Definition are the modifier
\* tokens written one after another directly before its keyword, in order; an
\* attempt whose last modifier is followed by a newline is abandoned at that
\* newline, and a declaration that starts the following line is emitted with
\* no modifiers, and with none of the attributes or doc comment of the
\* abandoned attempt
C25_ModifiersSameLine ==
    /\ \A k \in DOMAIN definitions :
          definitions[k].modifiers =
             ValuesOfTypes(ModifiersStart(k), KeywordAt(k), ModifierTypes)
    /\ \A b \in DOMAIN attempts, j \in 2..Cursor :
          ModifiersThenNewline(b, j) /\ attempts[b].end_at > 0 =>
             /\ attempts[b].emitted = 0
             /\ attempts[b].end_at = j
             /\ b < Len(attempts) /\ lexlog[j + 1].tok.type \in DeclTypes =>
                   /\ attempts[b + 1].first = j + 1
                   /\ attempts[b + 1].emitted > 0 =>
                         LET d == definitions[attempts[b + 1].emitted]
                         IN  /\ d.modifiers = <<>>
                             /\ d.attributes = <<>>
                             /\ d.doc_comment = <<>>
                             /\ d.line = lexlog[j + 1].tok.line
    /\ pc = "done" /\ content = ModifierLines =>
          /\ DeclNames = << <<kw_def, <<"m">> >>, <<kw_theorem, <<"t">> >> >>
          /\ definitions[1].modifiers = <<kw_private, kw_noncomputable, kw_protected>>
          /\ definitions[2].modifiers = <<>>
          /\ definitions[2].attributes = <<>>
          /\ definitions[2].line = 3

\* in ModifierLines the `def` took its three modifiers, the attempt that had
\* consumed an attribute and two modifiers was abandoned at the newline, and
\* the theorem on the next line was emitted bare
C25_Witness ==
    /\ pc = "done"
    /\ content = ModifierLines
    /\ Len(attempts) = 3
    /\ Abandoned = {2}
    /\ lexlog[attempts[2].end_at].tok.type = "NEWLINE"
    /\ lexlog[attempts[2].first].tok.type = "ATTRIBUTE"
    /\ Len(definitions[1].modifiers) = 3
    /\ definitions[2].modifiers = <<>>

\* the tokens an attempt consumes before the declaration keyword
PrefixTypes == {"DOC_COMMENT", "ATTRIBUTE", "NEWLINE"} \cup ModifierTypes

\* C26: doc comment and declaration line: a doc comment is recorded only when it
\* is the first token of the attempt, no doc comment occurs among the later
\* tokens of the attempt before its keyword, which are attributes, modifiers
\* and the newlines skipped between them; the line of the Definition, while it
\* is built and when it is emitted, is the line of the first token of the
\* attempt, whatever tokens of later lines the attempt consumed
C26_DocCommentAndLine ==
    /\ \A a \in DOMAIN attempts :
          attempts[a].name_at > 0 =>
             /\ \A i \in (attempts[a].first + 1)..(attempts[a].name_at - 2) :
                   lexlog[i].tok.type \in PrefixTypes \ {"DOC_COMMENT"}
             /\ lexlog[attempts[a].name_at - 1].tok.type \in DeclTypes
    /\ \A k \in DOMAIN definitions :
          LET first == lexlog[attempts[AttemptOf(k)].first].tok
          IN  /\ definitions[k].line = first.line
              /\ definitions[k].doc_comment # <<>> => first.type = "DOC_COMMENT"
              /\ first.type = "DOC_COMMENT" => definitions[k].doc_comment = first.value
    /\ pc \in {"kind", "name", "sig"} =>
          LET a == attempts[Len(attempts)]
          IN  defn.line = IF Cursor > a.first
                          THEN lexlog[a.first].tok.line ELSE 0
    /\ pc = "done" /\ content = DocLines =>
          /\ DeclNames = << <<kw_theorem, <<"t">> >>, <<kw_def, <<"g">> >> >>
          /\ definitions[1].line = 2
          /\ definitions[1].doc_comment = <<"/", "-", "-", " ", "d", " ", "-", "/">>
          /\ definitions[2].line = 7
          /\ definitions[2].doc_comment = <<"/", "-", "-", " ", "e", " ", "-", "/">>
          /\ definitions[2].attributes = <<>>

\* in DocLines the theorem whose keyword is on line 5 was emitted with the line
\* of its doc comment, and the `def` took the doc comment that ended the
\* attempt begun at the attribute before it
C26_Witness ==
    /\ pc = "done"
    /\ content = DocLines
    /\ Len(definitions) = 2
    /\ lexlog[KeywordAt(1)].tok.line = 5
    /\ definitions[1].line = 2
    /\ Abandoned = {2}
    /\ lexlog[attempts[2].end_at].tok.type = "DOC_COMMENT"
    /\ attempts[3].first = attempts[2].end_at

\* the tokens that can end a signature
TerminatorTypes == {"ASSIGN", "WHERE", "BY", "NEWLINE", "EOF"}

C27_Step ==
    \* the step that emits leaves the cursor on the token that ended the signature
    /\ pc = "sig" /\ pc' = "scan" =>
          /\ Len(definitions') = Len(definitions) + 1
          /\ current_token.type \in TerminatorTypes
          /\ current_token' = current_token
          /\ lexlog' = lexlog
          /\ position' = position
          /\ attempts'[Len(attempts')].end_at = Cursor'
          /\ lexlog'[Cursor'].tok = current_token'
    \* the scanning loop starts an attempt at every token that can start one
    /\ pc = "scan" /\ current_token.type \in StartTypes =>
          /\ pc' = "kind"
          /\ Len(attempts') = Len(attempts) + 1
          /\ attempts'[Len(attempts')].first = Cursor
    \* and steps over any other token, the one that ended a signature included
    /\ pc = "scan" /\ current_token.type \notin StartTypes \cup {"EOF"} =>
          /\ pc' = "scan"
          /\ Cursor' = Cursor + 1
          /\ attempts' = attempts
          /\ definitions' = definitions
    \* no token of a body that can start an attempt is passed over
    /\ \A a \in DOMAIN attempts' :
          attempts'[a].emitted > 0 =>
             LET next == IF a < Len(attempts') THEN attempts'[a + 1].first
                         ELSE IF pc' = "scan" THEN Cursor' ELSE Cursor' + 1
             IN  /\ attempts'[a].end_at <= next
                 /\ \A i \in attempts'[a].end_at..(next - 1) :
                       lexlog'[i].tok.type \notin StartTypes
    /\ pc' = "done" /\ content = BodyDeclarations =>
          /\ DeclNames' = << <<kw_def, <<"f">> >>, <<kw_theorem, <<"g">> >>,
                             <<kw_lemma, <<"h">> >>, <<kw_inductive, <<"i">> >> >>
          /\ definitions'[2].modifiers = <<kw_private>>
          /\ definitions'[3].doc_comment = <<"/", "-", "-", " ", "d", " ", "-", "/">>
          /\ definitions'[3].attributes = << <<"@", "[", "s", "]">> >>

\* C27: after emission, scanning resumes at the terminator: the token that
\* ended a signature is not consumed by the attempt and is the current token
\* when the scanning loop continues; the loop steps over it and scans the
\* tokens of the body like any other: every doc comment, attribute, modifier
\* or declaration keyword in a body starts a new attempt
C27_ResumeAtTerminator == [][C27_Step]_vars

\* in BodyDeclarations every body held the start of the next declaration:
\* four attempts, each begun after the terminator of the one before, all
\* emitted
C27_Witness ==
    /\ pc = "done"
    /\ content = BodyDeclarations
    /\ Len(attempts) = 4
    /\ Len(definitions) = 4
    /\ lexlog[attempts[1].end_at].tok.type = "ASSIGN"
    /\ attempts[2].first = attempts[1].end_at + 3
    /\ attempts[3].first = attempts[2].end_at + 1
    /\ lexlog[attempts[3].end_at].tok.type = "WHERE"

\* the character of the content at 0-based position p, or None
CharAt(p) == IF p < Len(content) THEN content[p + 1] ELSE None

\* the token of lexlog[i] starts at the opening marker of a block comment
OpensComment(i) ==
    CharAt(lexlog[i].start) = "/" /\ CharAt(lexlog[i].start + 1) = "-"

\* the token of lexlog[i] is a comment with a doc marker
HasDocMarker(i) == CharAt(lexlog[i].start + 2) = "-"

\* C28: doc-comment tagging: a token that starts at `/-` is a DOC_COMMENT when
\* the character right after the `/-` is `-` and a BLOCK_COMMENT otherwise;
\* either token ends where the nesting depth, counted over the text after the
\* opening marker and after the doc marker when there is one, returns to 0,
\* or at the end of the input
C28_DocCommentTagging ==
    \A i \in DOMAIN lexlog :
        /\ IsComment(lexlog[i]) <=> OpensComment(i)
        /\ OpensComment(i) =>
              LET body == lexlog[i].start + (IF HasDocMarker(i) THEN 3 ELSE 2)
              IN  /\ lexlog[i].tok.type = "DOC_COMMENT" <=> HasDocMarker(i)
                  /\ lexlog[i].tok.type = "BLOCK_COMMENT" <=> ~HasDocMarker(i)
                  /\ lexlog[i].end = MatchingClose(content, body, 1)
                  /\ lexlog[i].tok.value =
                        Slice(content, lexlog[i].start, lexlog[i].end)

\* `/--/ a-/` was lexed as one doc comment: the `-` of its first `-/` was taken
\* as the doc marker, and the second `-/` closed it
C28_Witness ==
    /\ pc = "eof"
    /\ Len(lexlog) = 2
    /\ content = <<"/", "-", "-", "/", " ", "a", "-", "/">>
    /\ lexlog[1].tok.type = "DOC_COMMENT"
    /\ lexlog[1].tok.value = content

\* the token of lexlog[i] starts at the opening marker of an attribute span
OpensAttribute(i) ==
    CharAt(lexlog[i].start) = "@" /\ CharAt(lexlog[i].start + 1) = "["

\* the number of positions in from..(to - 1) of the content that hold ch
CountChar(ch, from, to) == Cardinality({p \in from..(to - 1) : CharAt(p) = ch})

\* the bracket counter of the span that opens at `start` once the text before
\* position e is read: 1 for its own `[`, and the brackets after it
SpanDepth(start, e) ==
    1 + CountChar("[", start + 2, e) - CountChar("]", start + 2, e)

\* the positions after the span's opener where its counter is 0
SpanCloses(start) ==
    {e \in (start + 3)..Len(content) : SpanDepth(start, e) = 0}

\* C29: attribute span: a token that starts at `@[` is one ATTRIBUTE token, and
\* no other token is; its text is the source from `@[` through the first `]`
\* at which its own bracket counter is back to 0, so that a `]` closing a `[`
\* inside the span does not end it; when there is no such `]` the token is
\* the rest of the input, and lexing ends without error
C29_AttributeSpan ==
    /\ \A i \in DOMAIN lexlog :
          /\ lexlog[i].tok.type = "ATTRIBUTE" <=> OpensAttribute(i)
          /\ OpensAttribute(i) =>
                LET closes == SpanCloses(lexlog[i].start)
                IN  /\ lexlog[i].tok.value =
                          Slice(content, lexlog[i].start, lexlog[i].end)
                    /\ \A e \in closes : lexlog[i].end <= e
                    /\ closes # {} =>
                          /\ lexlog[i].end \in closes
                          /\ CharAt(lexlog[i].end - 1) = "]"
                    /\ closes = {} => lexlog[i].end = Len(content)
    /\ pc = "eof" => LastIsEOF /\ ~raised

\* `@[[]]a` was lexed as the span `@[[]]` and an identifier: the first `]`
\* closed the inner bracket, the second the span
C29_Witness ==
    /\ pc = "eof"
    /\ content = <<"@", "[", "[", "]", "]", "a">>
    /\ Len(lexlog) = 3
    /\ lexlog[1].tok.type = "ATTRIBUTE"
    /\ lexlog[1].tok.value = <<"@", "[", "[", "]", "]">>
    /\ lexlog[2].tok.type = "IDENTIFIER"

\* the token of lexlog[i] starts at a quote character
OpensString(i) == CharAt(lexlog[i].start) \in {"\"", "'"}

\* the number of backslashes written one after another right before position
\* p, counted back no further than the character after position start
BackslashRun(start, p) ==
    Cardinality({k \in 1..(p - start - 1) :
                    \A j \in 1..k : CharAt(p - j) = "\\"})

\* the character at p is consumed by a backslash of the string opened at start:
\* the backslash before it is not itself consumed by one
IsEscaped(start, p) == BackslashRun(start, p) % 2 = 1

\* the positions after the opening quote that hold the same quote, unescaped
ClosingQuotes(start) ==
    {p \in (start + 1)..(Len(content) - 1) :
        CharAt(p) = CharAt(start) /\ ~IsEscaped(start, p)}

\* C30: string literal: a token that starts at a quote character is one STRING
\* token, and no other token is; its text is the source from that quote
\* through the first later occurrence of the same quote that no backslash
\* consumes, a backslash consuming the character after it whatever it is,
\* so that `\"` does not close the string and `\\` followed by the quote does;
\* without a closing quote the token is the rest of the input, and lexing
\* ends without error
C30_StringLiteral ==
    /\ \A i \in DOMAIN lexlog :
          /\ lexlog[i].tok.type = "STRING" <=> OpensString(i)
          /\ OpensString(i) =>
                LET closing == ClosingQuotes(lexlog[i].start)
                IN  /\ lexlog[i].tok.value =
                          Slice(content, lexlog[i].start, lexlog[i].end)
                    /\ \A p \in closing : lexlog[i].end <= p + 1
                    /\ closing # {} => lexlog[i].end - 1 \in closing
                    /\ closing = {} => lexlog[i].end = Len(content)
    /\ pc = "eof" => lexlog # <<>> /\ lexlog[Len(lexlog)].tok.type = "EOF"

\* in EscapedQuotes the first string ran over the escaped quote and ended at
\* the quote after the escaped backslash, and the second ran to the end of
\* the input
C30_Witness ==
    /\ pc = "eof"
    /\ content = EscapedQuotes
    /\ Len(lexlog) = 7
    /\ lexlog[4].tok.type = "STRING"
    /\ lexlog[4].tok.value = <<"\"", "a", "\\", "\"", "b", "\\", "\\", "\"">>
    /\ lexlog[5].tok.type = "IDENTIFIER"
    /\ lexlog[6].tok.type = "STRING"
    /\ lexlog[6].end = Len(content)

====
